---- MODULE Spec2Model ----
(***************************************************************************)
(* fox::inplace_free_list<T, Capacity> (the slot arena) and                *)
(* fox::free_list<T, ChunkCapacity> (the chunked pool).                    *)
(*                                                                         *)
(* A slot of an arena is a union: it holds either a T or an offset record  *)
(* (the link to the next free slot).  The model keeps, for every slot,     *)
(* what was last constructed in it: [kind |-> "T", v |-> value] or         *)
(* [kind |-> "offset", v |-> link].  The code itself has no such tag: it   *)
(* derives occupancy from the free chain alone (free_mask).                *)
(***************************************************************************)
EXTENDS Integers, Sequences, FiniteSets, TLC

\* ---------------------------------------------------------------- bounds
Capacity == 4
ChunkCapacity == 2
MaxChunks == 3
MaxLeak == 2
Values == {"a", "b"}

\* ------------------------------------------------------ program constants
offset_type_npos == 65535

\* ---------------------------------------------------------------- state
VARIABLES
    list,       \* the arena under test (inplace_free_list<T, Capacity>)
    chunks_,    \* the pool's chunk collection (sequence of arenas)
    subject,    \* the structure under test: "arena", "pool", or "none" once destroyed
                \* ("crashed", "thrown": the run ended in a crash, left by an exception)
    expected,   \* a caller-side map handle -> value (the tests' std::map expected)
    cb_log,     \* the relocation callbacks of the last optimize_at, in order
    ret,        \* the last operation and what it returned
    instances,  \* T objects constructed and not yet destroyed
    optimized,  \* has optimize_at been called since construction
    target,     \* a second arena, the target of copies and moves of list
    chunk_data, \* data() of each chunk, in the order of chunks_, where the
                \* allocator is modelled (SpecPoolAllocator); <<>> elsewhere
    vector_storage_, \* ptr_vector::storage_, as the sequence of the values pointed to
    nodes,      \* the nodes of the intrusive lists, by address
    sentinel_   \* intrusive_list::sentinel_ of the two lists, "this" and "other"

vars ==
    <<list, chunks_, subject, expected, cb_log, ret, instances, optimized, target,
      chunk_data, vector_storage_, nodes, sentinel_>>

\* the containers that are independent of the arena and the pool
containers == <<vector_storage_, nodes, sentinel_>>

\* ------------------------------------------------------------- helpers
nullptr == 0 - 1

OffsetSlot(n) == [kind |-> "offset", v |-> n]
ValueSlot(x) == [kind |-> "T", v |-> x]

CapacityOf(a) == Cardinality(DOMAIN a.storage_)

\* the offset record read from slot i (reinterpret_cast<offset_accessor*>(storage)[i].offset);
\* a read outside the storage or of a slot holding a T has no defined value: the
\* walk stops there and the chain predicates below report it
offset_at(a, i) ==
    IF i \in DOMAIN a.storage_ /\ a.storage_[i].kind = "offset"
    THEN a.storage_[i].v
    ELSE offset_type_npos

\* ------------------------------------------------------------- arena
initialize_empty(cap) ==
    [ storage_ |-> [i \in 0 .. cap - 1 |->
                      IF i = cap - 1 THEN OffsetSlot(offset_type_npos)
                      ELSE OffsetSlot(i + 1)],
      first_free_ |-> 0,
      size_ |-> 0 ]

size(a) == a.size_

empty(a) == size(a) = 0

full(a) == a.first_free_ = offset_type_npos

\* the free chain as the sequence of indices the walk visits; the walk is cut
\* after CapacityOf(a) + 1 links (the code would not return on a cyclic chain)
RECURSIVE chain_walk(_, _, _, _)
chain_walk(a, i, out, fuel) ==
    IF i = offset_type_npos \/ fuel = 0 THEN out
    ELSE chain_walk(a, offset_at(a, i), Append(out, i), fuel - 1)

free_chain(a) == chain_walk(a, a.first_free_, <<>>, CapacityOf(a) + 1)

free_mask(a) == { free_chain(a)[k] : k \in 1 .. Len(free_chain(a)) }

RECURSIVE is_sorted_walk(_, _, _)
is_sorted_walk(a, current, fuel) ==
    IF current = offset_type_npos \/ fuel = 0 THEN TRUE
    ELSE LET next == offset_at(a, current)
         IN IF next > current THEN is_sorted_walk(a, next, fuel - 1) ELSE FALSE

is_sorted(a) == is_sorted_walk(a, a.first_free_, CapacityOf(a) + 1)

holds_value_at(a, idx) == idx \notin free_mask(a)

\* emplace that leaves first_free_ on the slot it has just filled
emplace_keeps_head(a, value) ==
    IF a.first_free_ = offset_type_npos
    THEN [a |-> a, idx |-> nullptr]
    ELSE [a |-> [ storage_ |-> [a.storage_ EXCEPT ![a.first_free_] = ValueSlot(value)],
                  first_free_ |-> a.first_free_,
                  size_ |-> a.size_ + 1 ],
          idx |-> a.first_free_]

\* emplace that counts the value it could not store in a full arena
emplace_counts_when_full(a, value) ==
    IF a.first_free_ = offset_type_npos
    THEN [a |-> [a EXCEPT !.size_ = @ + 1], idx |-> nullptr]
    ELSE [a |-> [ storage_ |-> [a.storage_ EXCEPT ![a.first_free_] = ValueSlot(value)],
                  first_free_ |-> offset_at(a, a.first_free_),
                  size_ |-> a.size_ + 1 ],
          idx |-> a.first_free_]

\* emplace that takes the next index as the new head instead of the slot's link
emplace_skips_link(a, value) ==
    IF a.first_free_ = offset_type_npos
    THEN [a |-> a, idx |-> nullptr]
    ELSE [a |-> [ storage_ |-> [a.storage_ EXCEPT ![a.first_free_] = ValueSlot(value)],
                  first_free_ |-> IF a.first_free_ = CapacityOf(a) - 1
                                  THEN offset_type_npos
                                  ELSE a.first_free_ + 1,
                  size_ |-> a.size_ + 1 ],
          idx |-> a.first_free_]

\* emplace: returns [a |-> the arena afterwards, idx |-> slot index or nullptr]
emplace(a, value) ==
    IF a.first_free_ = offset_type_npos
    THEN [a |-> a, idx |-> nullptr]
    ELSE LET out == a.first_free_
         IN [a |-> [ storage_ |-> [a.storage_ EXCEPT ![out] = ValueSlot(value)],
                     first_free_ |-> offset_at(a, out),
                     size_ |-> a.size_ + 1 ],
             idx |-> out]

\* erase that forgets size_ = size_ - 1
erase_keeps_size(a, idx) ==
    [ storage_ |-> [a.storage_ EXCEPT ![idx] = OffsetSlot(a.first_free_)],
      first_free_ |-> idx,
      size_ |-> a.size_ ]

\* erase that ends the chain at the erased slot instead of linking the old head
erase_drops_chain(a, idx) ==
    [ storage_ |-> [a.storage_ EXCEPT ![idx] = OffsetSlot(offset_type_npos)],
      first_free_ |-> idx,
      size_ |-> a.size_ - 1 ]

\* erase that links the erased slot behind the head of the chain
erase_links_behind_head(a, idx) ==
    IF a.first_free_ = offset_type_npos
    THEN [ storage_ |-> [a.storage_ EXCEPT ![idx] = OffsetSlot(a.first_free_)],
           first_free_ |-> idx,
           size_ |-> a.size_ - 1 ]
    ELSE [ storage_ |-> [a.storage_ EXCEPT
                            ![idx] = OffsetSlot(offset_at(a, a.first_free_)),
                            ![a.first_free_] = OffsetSlot(idx)],
           first_free_ |-> a.first_free_,
           size_ |-> a.size_ - 1 ]

erase(a, idx) ==
    [ storage_ |-> [a.storage_ EXCEPT ![idx] = OffsetSlot(a.first_free_)],
      first_free_ |-> idx,
      size_ |-> a.size_ - 1 ]

RECURSIVE sort_loop(_, _, _, _)
sort_loop(a, mask, idx, next_offset) ==
    IF ~(idx < CapacityOf(a))
    THEN [a EXCEPT !.first_free_ = next_offset]
    ELSE LET rev_idx == CapacityOf(a) - idx - 1
         IN IF rev_idx \in mask
            THEN sort_loop([a EXCEPT !.storage_[rev_idx] = OffsetSlot(next_offset)],
                           mask, idx + 1, rev_idx)
            ELSE sort_loop(a, mask, idx + 1, next_offset)

\* sort that ends the chain at its first slot
sort_ends_chain_at_head(a) ==
    LET r == sort_loop(a, free_mask(a), 0, offset_type_npos)
    IN IF r.first_free_ = offset_type_npos THEN r
       ELSE [r EXCEPT !.storage_[r.first_free_] = OffsetSlot(offset_type_npos)]

\* sort that rewrites the links but leaves first_free_ where it was
sort_keeps_head(a) ==
    [sort_loop(a, free_mask(a), 0, offset_type_npos) EXCEPT !.first_free_ = a.first_free_]

sort(a) == sort_loop(a, free_mask(a), 0, offset_type_npos)

\* a relocation that also steps the right cursor
optimize_move_retreats_right(s) ==
    [s EXCEPT
        !.a.storage_ = [@ EXCEPT ![s.left] = s.a.storage_[s.right],
                                 ![s.right] = OffsetSlot(s.right + 1)],
        !.a.first_free_ = s.right,
        !.mask = (@ \ {s.left}) \cup {s.right},
        !.log = Append(@, [from |-> s.right, to |-> s.left,
                           from_held |-> s.a.storage_[s.right].kind = "T",
                           to_free |-> s.a.storage_[s.left].kind = "offset"]),
        !.constructed = @ + 1,
        !.right = @ - 1,
        !.iters = @ + 1]

\* a relocation that reports cb(left, right)
optimize_move_swapped_cb(s) ==
    [s EXCEPT
        !.a.storage_ = [@ EXCEPT ![s.left] = s.a.storage_[s.right],
                                 ![s.right] = OffsetSlot(s.right + 1)],
        !.a.first_free_ = s.right,
        !.mask = (@ \ {s.left}) \cup {s.right},
        !.log = Append(@, [from |-> s.left, to |-> s.right,
                           from_held |-> s.a.storage_[s.right].kind = "T",
                           to_free |-> s.a.storage_[s.left].kind = "offset"]),
        !.constructed = @ + 1,
        !.iters = @ + 1]

\* a relocation that forgets mask.set(right)
optimize_move_keeps_mask(s) ==
    [s EXCEPT
        !.a.storage_ = [@ EXCEPT ![s.left] = s.a.storage_[s.right],
                                 ![s.right] = OffsetSlot(s.right + 1)],
        !.a.first_free_ = s.right,
        !.mask = @ \ {s.left},
        !.log = Append(@, [from |-> s.right, to |-> s.left,
                           from_held |-> s.a.storage_[s.right].kind = "T",
                           to_free |-> s.a.storage_[s.left].kind = "offset"]),
        !.constructed = @ + 1,
        !.iters = @ + 1]

\* one relocation: construct_at(dest, move(*source)), then an offset record is
\* constructed over the source (the moved-from T is not destroyed), the callback
\* runs, the mask and first_free_ are updated
optimize_move(s) ==
    [s EXCEPT
        !.a.storage_ = [@ EXCEPT ![s.left] = s.a.storage_[s.right],
                                 ![s.right] = OffsetSlot(s.right + 1)],
        !.a.first_free_ = s.right,
        !.mask = (@ \ {s.left}) \cup {s.right},
        !.log = Append(@, [from |-> s.right, to |-> s.left,
                           from_held |-> s.a.storage_[s.right].kind = "T",
                           to_free |-> s.a.storage_[s.left].kind = "offset"]),
        !.constructed = @ + 1,
        !.iters = @ + 1]

\* one iteration of while (left < right)
optimize_step(s) ==
    IF s.left \in s.mask
    THEN IF s.right \in s.mask
         THEN [s EXCEPT !.a.storage_[s.right] = OffsetSlot(s.right + 1),
                        !.right = @ - 1,
                        !.iters = @ + 1]
         ELSE optimize_move(s)
    ELSE [s EXCEPT !.left = @ + 1, !.iters = @ + 1]

RECURSIVE optimize_loop(_)
optimize_loop(s) ==
    IF ~(s.left < s.right) THEN s ELSE optimize_loop(optimize_step(s))

\* the loop state before each iteration and after the last one
RECURSIVE optimize_iterations(_)
optimize_iterations(s) ==
    IF ~(s.left < s.right) THEN <<s>>
    ELSE <<s>> \o optimize_iterations(optimize_step(s))

\* the loop state optimize_at starts from
optimize_start(a) ==
    [a |-> a, mask |-> free_mask(a), left |-> 0, right |-> CapacityOf(a) - 1,
     log |-> <<>>, constructed |-> 0, destroyed |-> 0, iters |-> 0]

\* ---- what a relocation callback finds
\* cb(right, left) runs after the value was constructed at left and the offset
\* record was written over right, and before first_free_ = right: the arena the
\* callback sees has the first_free_ the iteration began with.  A view names the
\* arena holding `to`, the arena holding `from`, the two slots and the value.
optimize_view(s, t) ==
    [to_chunk |-> [t.a EXCEPT !.first_free_ = s.a.first_free_],
     from_chunk |-> [t.a EXCEPT !.first_free_ = s.a.first_free_],
     from |-> s.right, to |-> s.left, val |-> s.a.storage_[s.right].v]

RECURSIVE optimize_views_of(_)
optimize_views_of(trace) ==
    IF Len(trace) < 2 THEN <<>>
    ELSE (IF Len(trace[2].log) = Len(trace[1].log) + 1
          THEN <<optimize_view(trace[1], trace[2])>> ELSE <<>>)
         \o optimize_views_of(Tail(trace))

optimize_views(a) == optimize_views_of(optimize_iterations(optimize_start(a)))

\* free_mask() on an arena whose chain may run through a slot that holds a T:
\* reading the offset record of such a slot yields the bytes of the T, any
\* offset g.  out.set(i) with i outside the bitset throws inside a noexcept
\* function (std::terminate); a walk that comes back to a slot it has visited
\* never ends.
GarbageOffsets == (0 .. Capacity) \cup {offset_type_npos}

RECURSIVE mask_walk(_, _, _, _, _)
mask_walk(a, i, out, fuel, g) ==
    IF i = offset_type_npos THEN [mask |-> out, ended |-> "returned"]
    ELSE IF i \notin DOMAIN a.storage_ THEN [mask |-> out, ended |-> "terminate"]
    ELSE IF fuel = 0 THEN [mask |-> out, ended |-> "hang"]
    ELSE mask_walk(a, IF a.storage_[i].kind = "offset" THEN a.storage_[i].v ELSE g,
                   out \cup {i}, fuel - 1, g)

free_mask_outcomes(a) ==
    {mask_walk(a, a.first_free_, {}, CapacityOf(a), g) : g \in GarbageOffsets}

\* optimize_at without the update of first_free_ after the loop
optimize_fix_first_free_dropped(s) == s

\* after the loop: if (right >= 0 && mask.test(right)) { first_free_ = right; ... }
optimize_fix_first_free(s) ==
    IF s.right >= 0 /\ s.right \in s.mask
    THEN [s EXCEPT !.a.first_free_ = s.right,
                   !.a.storage_[s.right] = OffsetSlot(s.right + 1)]
    ELSE s

\* after the loop: if (mask.test(Capacity - 1)) the last slot ends the chain
optimize_fix_last(s) ==
    IF (CapacityOf(s.a) - 1) \in s.mask
    THEN [s EXCEPT !.a.storage_[CapacityOf(s.a) - 1] = OffsetSlot(offset_type_npos)]
    ELSE s

\* optimize_at: returns a record with a |-> the arena afterwards, log |-> the
\* callbacks in order, constructed / destroyed |-> the T objects constructed and
\* destroyed, iters |-> the iterations of the loop
optimize_at(a) ==
    optimize_fix_last(optimize_fix_first_free(optimize_loop(optimize_start(a))))

\* destroy_all: the number of T objects it destroys (one per slot not in the mask)
destroy_all(a) == CapacityOf(a) - Cardinality(free_mask(a))

clear(a) == initialize_empty(CapacityOf(a))

\* ----------------------------------------------------- checked access
\* size_type and pointers have a width: this->data() + idx is computed modulo the
\* address space.  The model takes the 32-bit build with sizeof(T) = 4, where the
\* pointer wraps every 2^30 elements.
pointer_wrap == 2 ^ 30

\* the element offset of the pointer data() + idx from data()
ptr_offset(idx) == idx % pointer_wrap

\* owns(ptr): data() <= ptr < data() + Capacity, on the element offset of ptr
owns(a, off) == 0 <= off /\ off < CapacityOf(a)

\* holds_value(ptr) == !free_mask().test(as_index(ptr))
holds_value(a, off) == off \notin free_mask(a)

OutOfRange == [thrown |-> "out_of_range", idx |-> 0 - 1, val |-> "none"]
Returned(i, x) == [thrown |-> "none", idx |-> i, val |-> x]

\* what at(idx) does with the pointer the build computed
at_checked(a, idx) ==
    LET off == ptr_offset(idx)
    IN IF ~owns(a, off) THEN OutOfRange
       ELSE IF ~holds_value(a, off) THEN OutOfRange
       ELSE Returned(off, a.storage_[off].v)

\* at(idx): the set of outcomes.  data() + idx is defined for idx <= Capacity only
\* (a pointer into the array or one past it); beyond that the arithmetic is
\* undefined and a build either wraps the pointer or folds the range test
at(a, idx) ==
    IF idx <= CapacityOf(a) THEN {at_checked(a, idx)}
    ELSE {at_checked(a, idx), OutOfRange}

\* --------------------------------------------------- caller-side map
NoHandles == [h \in {} |-> "none"]

map_put(m, h, x) == [k \in DOMAIN m \cup {h} |-> IF k = h THEN x ELSE m[k]]

map_del(m, h) == [k \in DOMAIN m \ {h} |-> m[k]]

\* the tests' relocation callback: e = (to, expected[from]); expected.erase(from);
\* expected.insert(e)  (std::map::insert keeps an entry already present)
replay_cb(m, from, to) ==
    IF from \notin DOMAIN m THEN m
    ELSE LET x == m[from]
             m1 == map_del(m, from)
         IN IF to \in DOMAIN m1 THEN m1 ELSE map_put(m1, to, x)

RECURSIVE replay_log(_, _)
replay_log(m, log) ==
    IF log = <<>> THEN m
    ELSE replay_log(replay_cb(m, Head(log).from, Head(log).to), Tail(log))

\* ------------------------------------------------------- arena actions

\* what the last operation was and how it ended: thrown is "none", "out_of_range"
\* or "crash"; undefined tells that the operation had undefined behaviour
Ret(op, idx, val, thrown) ==
    [op |-> op, idx |-> idx, val |-> val, thrown |-> thrown, undefined |-> FALSE]

Undefined(op, idx, val, thrown) ==
    [op |-> op, idx |-> idx, val |-> val, thrown |-> thrown, undefined |-> TRUE]

NoRet == Ret("none", nullptr, "none", "none")

IndexInputs == (0 .. Capacity + 1) \cup {pointer_wrap + i : i \in 0 .. Capacity - 1}

InitArena ==
    /\ list = initialize_empty(Capacity)
    /\ chunks_ = <<>>
    /\ subject = "arena"
    /\ expected = NoHandles
    /\ cb_log = <<>>
    /\ ret = NoRet
    /\ instances = 0
    /\ optimized = FALSE
    /\ target = initialize_empty(Capacity)
    /\ chunk_data = <<>>
    /\ vector_storage_ = <<>>
    /\ nodes = <<>>
    /\ sentinel_ = <<>>

ArenaEmplace(x) ==
    /\ subject = "arena"
    /\ \E r \in {emplace(list, x)} :
          /\ list' = r.a
          /\ ret' = Ret("emplace", r.idx, x, "none")
          /\ expected' = IF r.idx = nullptr THEN expected ELSE map_put(expected, r.idx, x)
          /\ instances' = IF r.idx = nullptr THEN instances ELSE instances + 1
    /\ cb_log' = <<>>
    /\ UNCHANGED <<containers, chunk_data, target, chunks_, subject, optimized>>

\* erase(ptr) requires ptr to hold a value (assert_holds_value)
ArenaErase(idx) ==
    /\ subject = "arena"
    /\ idx \in 0 .. Capacity - 1
    /\ holds_value_at(list, idx)
    /\ list' = erase(list, idx)
    /\ ret' = Ret("erase", idx, "none", "none")
    /\ expected' = map_del(expected, idx)
    /\ instances' = instances - 1
    /\ cb_log' = <<>>
    /\ UNCHANGED <<containers, chunk_data, target, chunks_, subject, optimized>>

ArenaSort ==
    /\ subject = "arena"
    /\ list' = sort(list)
    /\ ret' = Ret("sort", nullptr, "none", "none")
    /\ cb_log' = <<>>
    /\ UNCHANGED <<containers, chunk_data, target, chunks_, subject, expected, instances, optimized>>

ArenaClear ==
    /\ subject = "arena"
    /\ list' = clear(list)
    /\ instances' = instances - destroy_all(list)
    /\ ret' = Ret("clear", nullptr, "none", "none")
    /\ expected' = NoHandles
    /\ cb_log' = <<>>
    /\ UNCHANGED <<containers, chunk_data, target, chunks_, subject, optimized>>

\* the guard bounds the T objects that are never destroyed
ArenaOptimizeAt ==
    /\ subject = "arena"
    /\ \E r \in {optimize_at(list)} :
          /\ instances + r.constructed - r.destroyed - size(r.a) <= MaxLeak
          /\ list' = r.a
          /\ cb_log' = r.log
          /\ expected' = replay_log(expected, r.log)
          /\ instances' = instances + r.constructed - r.destroyed
    /\ ret' = Ret("optimize_at", nullptr, "none", "none")
    /\ optimized' = TRUE
    /\ UNCHANGED <<containers, chunk_data, target, chunks_, subject>>

ArenaAt(idx) ==
    /\ subject = "arena"
    /\ \E o \in at(list, idx) :
          ret' = IF idx > Capacity
                 THEN Undefined("at", idx, o.val, o.thrown)
                 ELSE Ret("at", idx, o.val, o.thrown)
    /\ cb_log' = <<>>
    /\ UNCHANGED <<containers, chunk_data, target, list, chunks_, subject, expected, instances, optimized>>

\* ~inplace_free_list(): destroy_all()
ArenaDestructor ==
    /\ subject = "arena"
    /\ subject' = "none"
    /\ instances' = instances - destroy_all(list)
    /\ ret' = Ret("destructor", nullptr, "none", "none")
    /\ cb_log' = <<>>
    /\ UNCHANGED <<containers, chunk_data, target, list, chunks_, expected, optimized>>

NextArena ==
    \/ \E x \in Values : ArenaEmplace(x)
    \/ \E idx \in 0 .. Capacity - 1 : ArenaErase(idx)
    \/ ArenaSort
    \/ ArenaClear
    \/ ArenaOptimizeAt
    \/ \E idx \in IndexInputs : ArenaAt(idx)
    \/ ArenaDestructor

\* ------------------------------------------------- copies and moves
\* initialize_copy that does not take over size_
initialize_copy_keeps_size(other) ==
    [ storage_ |-> [i \in DOMAIN other.storage_ |->
                      IF i \in free_mask(other)
                      THEN OffsetSlot(offset_at(other, i))
                      ELSE ValueSlot(other.storage_[i].v)],
      first_free_ |-> other.first_free_,
      size_ |-> 0 ]

\* initialize_copy(other): first_free_ and size_ are taken over; the offset
\* records are copied along other's free chain, then a T is copy-constructed in
\* every slot the chain did not visit
initialize_copy(other) ==
    [ storage_ |-> [i \in DOMAIN other.storage_ |->
                      IF i \in free_mask(other)
                      THEN OffsetSlot(offset_at(other, i))
                      ELSE ValueSlot(other.storage_[i].v)],
      first_free_ |-> other.first_free_,
      size_ |-> other.size_ ]

\* initialize_move that starts the target's chain at slot 0
initialize_move_resets_head(other) ==
    [ storage_ |-> [i \in DOMAIN other.storage_ |->
                      IF i \in free_mask(other)
                      THEN OffsetSlot(offset_at(other, i))
                      ELSE ValueSlot(other.storage_[i].v)],
      first_free_ |-> 0,
      size_ |-> other.size_ ]

\* initialize_move(other): as initialize_copy, the T objects being
\* move-constructed; the moved-from objects of other are not destroyed
initialize_move(other) ==
    [ storage_ |-> [i \in DOMAIN other.storage_ |->
                      IF i \in free_mask(other)
                      THEN OffsetSlot(offset_at(other, i))
                      ELSE ValueSlot(other.storage_[i].v)],
      first_free_ |-> other.first_free_,
      size_ |-> other.size_ ]

\* inplace_free_list to(from): the arena that target named before is destroyed
ArenaCopyConstruct ==
    /\ subject = "arena"
    /\ target' = initialize_copy(list)
    /\ instances' = instances - destroy_all(target) + size(list)
    /\ ret' = Ret("copy_constructor", nullptr, "none", "none")
    /\ cb_log' = <<>>
    /\ UNCHANGED <<containers, chunk_data, list, chunks_, subject, expected, optimized>>

\* to = from: destroy_all(); initialize_copy(other)
ArenaCopyAssign ==
    /\ subject = "arena"
    /\ target' = initialize_copy(list)
    /\ instances' = instances - destroy_all(target) + size(list)
    /\ ret' = Ret("copy_assignment", nullptr, "none", "none")
    /\ cb_log' = <<>>
    /\ UNCHANGED <<containers, chunk_data, list, chunks_, subject, expected, optimized>>

\* inplace_free_list to(std::move(from)): initialize_move(other);
\* other.initialize_empty().  The guard bounds the T objects never destroyed
ArenaMoveConstruct ==
    /\ subject = "arena"
    /\ instances - destroy_all(target) <= MaxLeak
    /\ target' = initialize_move(list)
    /\ list' = initialize_empty(Capacity)
    /\ instances' = instances - destroy_all(target) + size(list)
    /\ ret' = Ret("move_constructor", nullptr, "none", "none")
    /\ expected' = NoHandles
    /\ cb_log' = <<>>
    /\ UNCHANGED <<containers, chunk_data, chunks_, subject, optimized>>

\* to = std::move(from): destroy_all(); initialize_move(other);
\* other.initialize_empty()
ArenaMoveAssign ==
    /\ subject = "arena"
    /\ instances - destroy_all(target) <= MaxLeak
    /\ target' = initialize_move(list)
    /\ list' = initialize_empty(Capacity)
    /\ instances' = instances - destroy_all(target) + size(list)
    /\ ret' = Ret("move_assignment", nullptr, "none", "none")
    /\ expected' = NoHandles
    /\ cb_log' = <<>>
    /\ UNCHANGED <<containers, chunk_data, chunks_, subject, optimized>>

\* two arenas: list is filled by emplace and erase, target by copies and moves
NextArenaCopy ==
    \/ \E x \in Values : ArenaEmplace(x)
    \/ \E idx \in 0 .. Capacity - 1 : ArenaErase(idx)
    \/ ArenaCopyConstruct
    \/ ArenaCopyAssign
    \/ ArenaMoveConstruct
    \/ ArenaMoveAssign

SpecArenaCopy == InitArena /\ [][NextArenaCopy]_vars

\* ------------------------------------------- copy assignment to itself
\* v = v runs destroy_all() and then initialize_copy(*this); there is no test
\* for this == &other.  When T is trivially copy constructible (std::int32_t)
\* destroy_at does nothing and storage_ = other.storage_ copies the array onto
\* itself.  Otherwise (std::string) every live T was destroyed and is then copy
\* constructed from itself, a read of an object whose lifetime has ended: the
\* slot may come out with the bytes it had, with any other value, or the copy
\* constructor may crash.
TrivialityOfT == {"trivially_copy_constructible", "not_trivially_copy_constructible"}

indeterminate_values(a) ==
    [a EXCEPT !.storage_ = [i \in DOMAIN a.storage_ |->
                               IF a.storage_[i].kind = "T"
                               THEN ValueSlot("indeterminate") ELSE a.storage_[i]]]

\* the outcomes of v = v
copy_assign_self(a, triviality) ==
    IF triviality = "trivially_copy_constructible" \/ destroy_all(a) = 0
    THEN {[a |-> initialize_copy(a), undefined |-> FALSE, thrown |-> "none"]}
    ELSE {[a |-> initialize_copy(a), undefined |-> TRUE, thrown |-> "none"],
          [a |-> indeterminate_values(initialize_copy(a)), undefined |-> TRUE,
           thrown |-> "none"],
          [a |-> a, undefined |-> TRUE, thrown |-> "crash"]}

ArenaCopyAssignSelf(triviality) ==
    /\ subject = "arena"
    /\ \E r \in copy_assign_self(list, triviality) :
          /\ list' = r.a
          /\ ret' = IF r.undefined
                    THEN Undefined("copy_assignment_self", nullptr, "none", r.thrown)
                    ELSE Ret("copy_assignment_self", nullptr, "none", "none")
          /\ subject' = IF r.thrown = "crash" THEN "crashed" ELSE subject
    /\ cb_log' = <<>>
    /\ UNCHANGED <<containers, chunk_data, target, chunks_, expected, instances, optimized>>

NextArenaSelfAssign ==
    \/ \E x \in Values : ArenaEmplace(x)
    \/ \E idx \in 0 .. Capacity - 1 : ArenaErase(idx)
    \/ \E triviality \in TrivialityOfT : ArenaCopyAssignSelf(triviality)

SpecArenaSelfAssign == InitArena /\ [][NextArenaSelfAssign]_vars

\* ------------------------------------------- constructors that throw
\* emplace whose std::construct_at throws: first_free_ was already advanced,
\* size_ = size_ + 1 is not reached.  The bytes of the slot are whatever the
\* constructor left; the model keeps the offset record, the most favourable case
emplace_throwing(a, value) ==
    [a |-> [a EXCEPT !.first_free_ = offset_at(a, a.first_free_)],
     idx |-> a.first_free_]

\* the loop of optimize_at when the construction of relocation number fail_at
\* (counted from 0) throws: the exception leaves the loop at once, before the
\* callback and before mask / first_free_ are updated for that relocation
RECURSIVE optimize_loop_throwing(_, _)
optimize_loop_throwing(s, fail_at) ==
    IF ~(s.left < s.right) THEN s
    ELSE IF s.left \in s.mask
         THEN IF s.right \in s.mask
              THEN optimize_loop_throwing([s EXCEPT
                       !.a.storage_[s.right] = OffsetSlot(s.right + 1),
                       !.right = @ - 1,
                       !.iters = @ + 1], fail_at)
              ELSE IF s.constructed = fail_at
                   THEN [s EXCEPT !.thrown = TRUE]
                   ELSE optimize_loop_throwing(optimize_move(s), fail_at)
         ELSE optimize_loop_throwing([s EXCEPT !.left = @ + 1, !.iters = @ + 1], fail_at)

\* optimize_at left by an exception: the statements after the loop do not run
optimize_at_throwing(a, fail_at) ==
    optimize_loop_throwing(
        [a |-> a, mask |-> free_mask(a), left |-> 0, right |-> CapacityOf(a) - 1,
         log |-> <<>>, constructed |-> 0, destroyed |-> 0, iters |-> 0,
         thrown |-> FALSE], fail_at)

\* the exception reaches the caller; the run is observed in the state it leaves
ArenaEmplaceThrows(x) ==
    /\ subject = "arena"
    /\ ~full(list)
    /\ \E r \in {emplace_throwing(list, x)} :
          /\ list' = r.a
          /\ ret' = Ret("emplace", r.idx, x, "exception")
    /\ subject' = "thrown"
    /\ cb_log' = <<>>
    /\ UNCHANGED <<containers, chunk_data, target, chunks_, expected, instances, optimized>>

\* ret.idx is the slot of the value whose relocation threw
ArenaOptimizeAtThrows(fail_at) ==
    /\ subject = "arena"
    /\ \E r \in {optimize_at_throwing(list, fail_at)} :
          /\ r.thrown
          /\ list' = r.a
          /\ cb_log' = r.log
          /\ expected' = replay_log(expected, r.log)
          /\ instances' = instances + r.constructed - r.destroyed
          /\ ret' = Ret("optimize_at", r.right, "none", "exception")
    /\ subject' = "thrown"
    /\ optimized' = TRUE
    /\ UNCHANGED <<containers, chunk_data, target, chunks_>>

NextArenaThrowing ==
    \/ NextArena
    \/ \E x \in Values : ArenaEmplaceThrows(x)
    \/ \E fail_at \in 0 .. Capacity : ArenaOptimizeAtThrows(fail_at)

SpecArenaThrowing == InitArena /\ [][NextArenaThrowing]_vars

SpecArena == InitArena /\ [][NextArena]_vars

\* --------------------------------------------------------------- pool
\* chunks_ is a sequence of arenas; chunk number c of the code is chunks_[c + 1]
chunk(cs, c) == cs[c + 1]

\* pack_index that shifts the chunk number by a quarter of the width
pack_index_narrow(c, position) == c * (2 ^ 8) + position

pack_index(c, position) == c * (2 ^ 16) + position

unpack_index(index) ==
    [position |-> index % (2 ^ 16), chunk |-> (index \div (2 ^ 16)) % (2 ^ 16)]

pool_capacity(cs) == Len(cs) * ChunkCapacity

RECURSIVE pool_size(_)
pool_size(cs) == IF cs = <<>> THEN 0 ELSE size(Head(cs)) + pool_size(Tail(cs))

\* the number of the first chunk that is not full, or Len(cs) when there is none
first_not_full(cs) ==
    IF \E c \in 0 .. Len(cs) - 1 : ~full(chunk(cs, c))
    THEN CHOOSE c \in 0 .. Len(cs) - 1 :
            /\ ~full(chunk(cs, c))
            /\ \A d \in 0 .. c - 1 : full(chunk(cs, d))
    ELSE Len(cs)

\* emplace that looks at the last chunk only
pool_emplace_in_last(cs, x) ==
    LET c == IF cs # <<>> /\ ~full(cs[Len(cs)]) THEN Len(cs) - 1 ELSE Len(cs)
        cs1 == IF c = Len(cs) THEN Append(cs, initialize_empty(ChunkCapacity)) ELSE cs
        r == emplace(chunk(cs1, c), x)
    IN [cs |-> [cs1 EXCEPT ![c + 1] = r.a], idx |-> pack_index(c, r.idx)]

\* emplace: returns [cs |-> the chunks afterwards, idx |-> as_index of the pointer]
pool_emplace(cs, x) ==
    LET c == first_not_full(cs)
        cs1 == IF c = Len(cs) THEN Append(cs, initialize_empty(ChunkCapacity)) ELSE cs
        r == emplace(chunk(cs1, c), x)
    IN [cs |-> [cs1 EXCEPT ![c + 1] = r.a], idx |-> pack_index(c, r.idx)]

\* erase whose chunk forgets size_ = size_ - 1
pool_erase_keeps_count(cs, c, position) ==
    LET cs1 == [cs EXCEPT ![c + 1] = erase_keeps_size(@, position)]
    IN IF empty(chunk(cs1, c)) /\ c = Len(cs1) - 1
       THEN SubSeq(cs1, 1, Len(cs1) - 1)
       ELSE cs1

\* erase that never drops a chunk
pool_erase_keeps_chunk(cs, c, position) ==
    [cs EXCEPT ![c + 1] = erase(@, position)]

\* erase that drops the last chunk whenever the chunk it erased from is empty
pool_erase_pops_last(cs, c, position) ==
    LET cs1 == [cs EXCEPT ![c + 1] = erase(@, position)]
    IN IF empty(chunk(cs1, c))
       THEN SubSeq(cs1, 1, Len(cs1) - 1)
       ELSE cs1

\* erase(ptr), ptr being the slot (c, position): the owning chunk erases it and is
\* popped when it is then empty and the last one
pool_erase(cs, c, position) ==
    LET cs1 == [cs EXCEPT ![c + 1] = erase(@, position)]
    IN IF empty(chunk(cs1, c)) /\ c = Len(cs1) - 1
       THEN SubSeq(cs1, 1, Len(cs1) - 1)
       ELSE cs1

\* shrink: returns [cs |-> the chunks afterwards, undefined |-> back() was called
\* on an empty collection]
RECURSIVE pool_shrink(_)
pool_shrink(cs) ==
    IF cs = <<>> THEN [cs |-> cs, undefined |-> TRUE]
    ELSE IF empty(cs[Len(cs)]) THEN pool_shrink(SubSeq(cs, 1, Len(cs) - 1))
    ELSE [cs |-> cs, undefined |-> FALSE]

pool_sort(cs) == [k \in 1 .. Len(cs) |-> sort(cs[k])]

\* a cross-chunk relocation that reports cb(packed_to, packed_from)
drain_move_swapped_cb(s, rev_idx) ==
    LET ci == chunk(s.cs, s.chunk_i)
        cj == chunk(s.cs, s.chunk_j)
        r == emplace(ci, cj.storage_[rev_idx].v)
    IN [s EXCEPT
           !.cs = [@ EXCEPT ![s.chunk_i + 1] = r.a,
                            ![s.chunk_j + 1] = erase(cj, rev_idx)],
           !.log = Append(@, [from |-> pack_index(s.chunk_i, r.idx),
                              to |-> pack_index(s.chunk_j, rev_idx)]),
           !.constructed = @ + 1,
           !.destroyed = @ + 1]

\* one cross-chunk relocation: emplace(*source) in chunk_i, erase(source) in
\* chunk_j, then the callback with the packed indices
drain_move(s, rev_idx) ==
    LET ci == chunk(s.cs, s.chunk_i)
        cj == chunk(s.cs, s.chunk_j)
        r == emplace(ci, cj.storage_[rev_idx].v)
    IN [s EXCEPT
           !.cs = [@ EXCEPT ![s.chunk_i + 1] = r.a,
                            ![s.chunk_j + 1] = erase(cj, rev_idx)],
           !.log = Append(@, [from |-> pack_index(s.chunk_j, rev_idx),
                              to |-> pack_index(s.chunk_i, r.idx)]),
           !.views = Append(@, [to_chunk |-> r.a, from_chunk |-> erase(cj, rev_idx),
                                from |-> rev_idx, to |-> r.idx,
                                val |-> cj.storage_[rev_idx].v]),
           !.constructed = @ + 1,
           !.destroyed = @ + 1]

\* the scan of chunk_j from its highest index downward
RECURSIVE drain_loop(_, _)
drain_loop(s, idx) ==
    IF ~(idx < ChunkCapacity) THEN s
    ELSE LET rev_idx == ChunkCapacity - idx - 1
         IN IF holds_value_at(chunk(s.cs, s.chunk_j), rev_idx)
               /\ ~full(chunk(s.cs, s.chunk_i))
            THEN drain_loop(drain_move(s, rev_idx), idx + 1)
            ELSE drain_loop(s, idx + 1)

\* the callbacks of a chunk's own optimize_at, translated to packed indices
packed_log(c, log) ==
    [k \in 1 .. Len(log) |->
        [from |-> pack_index(c, log[k].from), to |-> pack_index(c, log[k].to)]]

\* the single chunk left between the cursors is compacted by its own optimize_at
optimize_single_chunk(s, r) ==
    [s EXCEPT !.cs[s.chunk_i + 1] = r.a,
              !.log = @ \o packed_log(s.chunk_i, r.log),
              !.views = @ \o optimize_views(chunk(s.cs, s.chunk_i)),
              !.constructed = @ + r.constructed,
              !.destroyed = @ + r.destroyed]

\* after the scan: chunk_i advances if it is full, chunk_j retreats if it is empty
advance_cursors(s) ==
    [s EXCEPT !.chunk_i = IF full(chunk(s.cs, s.chunk_i)) THEN @ + 1 ELSE @,
              !.chunk_j = IF empty(chunk(s.cs, s.chunk_j)) THEN @ - 1 ELSE @]

\* a loop that does not sort chunk_i before it receives values
sort_receiver_skipped(s) == s

\* chunks_[chunk_i].sort(): the chunk that receives values hands out its lowest
\* free slot first
sort_receiver(s) == [s EXCEPT !.cs[s.chunk_i + 1] = sort(@)]

RECURSIVE pool_optimize_loop(_)
RECURSIVE pool_optimize_step(_)
\* the body of the loop once chunk_i is known not to be full and was sorted
pool_optimize_step(s) ==
    IF s.chunk_i = s.chunk_j
    THEN optimize_single_chunk(s, optimize_at(chunk(s.cs, s.chunk_i)))
    ELSE pool_optimize_loop(advance_cursors(drain_loop(s, 0)))

pool_optimize_loop(s) ==
    IF ~(s.chunk_i <= s.chunk_j /\ s.chunk_j > 0) THEN s
    ELSE IF s.chunk_i >= Len(s.cs) THEN [s EXCEPT !.undefined = TRUE]
    ELSE IF size(chunk(s.cs, s.chunk_i)) = ChunkCapacity
         THEN pool_optimize_loop([s EXCEPT !.chunk_i = @ + 1])
    ELSE pool_optimize_step(sort_receiver(s))

\* optimize_at that ends without dropping the chunks it emptied
with_shrunk_dropped(s, sh) == s

with_shrunk(s, sh) == [s EXCEPT !.cs = sh.cs, !.undefined = sh.undefined]

\* the shrink() that ends optimize_at
optimize_shrink(s) ==
    IF s.undefined THEN s ELSE with_shrunk(s, pool_shrink(s.cs))

\* optimize_at: returns a record with cs |-> the chunks afterwards, log |-> the
\* callbacks in order, views |-> what each callback finds, constructed / destroyed |-> the T objects constructed and
\* destroyed, undefined |-> the call indexed a chunk that does not exist (cs is
\* then the chunks at that point)
pool_optimize_at(cs) ==
    optimize_shrink(
        pool_optimize_loop([cs |-> cs, chunk_i |-> 0,
                            chunk_j |-> (Len(cs) - 1) % (2 ^ 16),
                            log |-> <<>>, views |-> <<>>,
                            constructed |-> 0, destroyed |-> 0,
                            undefined |-> FALSE]))

\* at(idx): the set of outcomes.  The chunk number is not compared with the size of
\* the collection: std::data(chunks_)[chunk] beyond it reads whatever pointer lies
\* there (that of a dropped chunk, or none), so that the call may throw, return
\* stale data or crash
pool_at(cs, index) ==
    LET u == unpack_index(index)
    IN IF u.chunk < Len(cs)
       THEN {[o EXCEPT !.idx = IF o.thrown = "none" THEN pack_index(u.chunk, @) ELSE @] :
                o \in at(chunk(cs, u.chunk), u.position)}
       ELSE {OutOfRange,
             [thrown |-> "none", idx |-> index, val |-> "stale"],
             [thrown |-> "crash", idx |-> nullptr, val |-> "none"]}

\* a slot address: the chunk whose storage it lies in and its element offset there
\* (the chunks are separate allocations, ptr_vector keeps them by pointer)
SlotPtr(c, off) == [chunk |-> c, off |-> off]

\* as_index(ptr): the first chunk that owns ptr, then pack_index of the two
\* numbers cast to std::uint16_t
pool_as_index(cs, ptr) ==
    LET c == CHOOSE d \in 0 .. Len(cs) - 1 :
                 /\ ptr.chunk = d /\ owns(chunk(cs, d), ptr.off)
                 /\ \A b \in 0 .. d - 1 : ~(ptr.chunk = b /\ owns(chunk(cs, b), ptr.off))
    IN pack_index(c % (2 ^ 16), ptr.off % (2 ^ 16))

\* operator[](idx): chunk_ptr->operator[](index), i.e. data() + index of that chunk
pool_subscript(cs, idx) ==
    SlotPtr(unpack_index(idx).chunk, unpack_index(idx).position)

\* holds_value_at(idx), for an index whose chunk is in the collection
pool_holds_value_at(cs, idx) ==
    holds_value_at(chunk(cs, unpack_index(idx).chunk), unpack_index(idx).position)

RECURSIVE pool_destroy_all(_)
pool_destroy_all(cs) ==
    IF cs = <<>> THEN 0 ELSE destroy_all(Head(cs)) + pool_destroy_all(Tail(cs))

\* -------------------------------------------------------- pool actions
PackedInputs ==
    {pack_index(c, position) : c \in 0 .. MaxChunks, position \in 0 .. ChunkCapacity}

InitPool ==
    /\ list = initialize_empty(Capacity)
    /\ chunks_ = <<>>
    /\ subject = "pool"
    /\ expected = NoHandles
    /\ cb_log = <<>>
    /\ ret = NoRet
    /\ instances = 0
    /\ optimized = FALSE
    /\ target = initialize_empty(Capacity)
    /\ chunk_data = <<>>
    /\ vector_storage_ = <<>>
    /\ nodes = <<>>
    /\ sentinel_ = <<>>

\* the guard bounds the number of chunks
PoolEmplace(x) ==
    /\ subject = "pool"
    /\ first_not_full(chunks_) < MaxChunks
    /\ \E r \in {pool_emplace(chunks_, x)} :
          /\ chunks_' = r.cs
          /\ ret' = Ret("emplace", r.idx, x, "none")
          /\ expected' = map_put(expected, r.idx, x)
    /\ instances' = instances + 1
    /\ cb_log' = <<>>
    /\ UNCHANGED <<containers, chunk_data, target, list, subject, optimized>>

\* erase(ptr) requires ptr to be owned and to hold a value
PoolErase(c, position) ==
    /\ subject = "pool"
    /\ c \in 0 .. Len(chunks_) - 1
    /\ position \in 0 .. ChunkCapacity - 1
    /\ holds_value_at(chunk(chunks_, c), position)
    /\ chunks_' = pool_erase(chunks_, c, position)
    /\ ret' = Ret("erase", pack_index(c, position), "none", "none")
    /\ expected' = map_del(expected, pack_index(c, position))
    /\ instances' = instances - 1
    /\ cb_log' = <<>>
    /\ UNCHANGED <<containers, chunk_data, target, list, subject, optimized>>

PoolSort ==
    /\ subject = "pool"
    /\ chunks_' = pool_sort(chunks_)
    /\ ret' = Ret("sort", nullptr, "none", "none")
    /\ cb_log' = <<>>
    /\ UNCHANGED <<containers, chunk_data, target, list, subject, expected, instances, optimized>>

PoolClear ==
    /\ subject = "pool"
    /\ chunks_' = <<>>
    /\ instances' = instances - pool_destroy_all(chunks_)
    /\ ret' = Ret("clear", nullptr, "none", "none")
    /\ expected' = NoHandles
    /\ cb_log' = <<>>
    /\ UNCHANGED <<containers, chunk_data, target, list, subject, optimized>>

\* what a call that indexed a chunk that does not exist may do: return with the
\* chunks as they were at that point, or crash
UndefinedOutcomes == {"none", "crash"}

PoolShrink ==
    /\ subject = "pool"
    /\ \E r \in {pool_shrink(chunks_)}, outcome \in UndefinedOutcomes :
          /\ (~r.undefined) => (outcome = "none")
          /\ chunks_' = r.cs
          /\ ret' = IF r.undefined
                    THEN Undefined("shrink", nullptr, "none", outcome)
                    ELSE Ret("shrink", nullptr, "none", "none")
          /\ subject' = IF outcome = "crash" THEN "crashed" ELSE subject
    /\ cb_log' = <<>>
    /\ UNCHANGED <<containers, chunk_data, target, list, expected, instances, optimized>>

\* the guard bounds the T objects that are never destroyed
PoolOptimizeAt ==
    /\ subject = "pool"
    /\ \E r \in {pool_optimize_at(chunks_)}, outcome \in UndefinedOutcomes :
          /\ (~r.undefined) => (outcome = "none")
          /\ instances + r.constructed - r.destroyed - pool_size(r.cs) <= MaxLeak
          /\ chunks_' = r.cs
          /\ cb_log' = r.log
          /\ expected' = replay_log(expected, r.log)
          /\ instances' = instances + r.constructed - r.destroyed
          /\ ret' = IF r.undefined
                    THEN Undefined("optimize_at", nullptr, "none", outcome)
                    ELSE Ret("optimize_at", nullptr, "none", "none")
          /\ subject' = IF outcome = "crash" THEN "crashed" ELSE subject
    /\ optimized' = TRUE
    /\ UNCHANGED <<containers, chunk_data, target, list>>

PoolAt(index) ==
    /\ subject = "pool"
    /\ \E o \in pool_at(chunks_, index) :
          /\ ret' = IF unpack_index(index).chunk < Len(chunks_)
                    THEN Ret("at", index, o.val, o.thrown)
                    ELSE Undefined("at", index, o.val, o.thrown)
          /\ subject' = IF o.thrown = "crash" THEN "crashed" ELSE subject
    /\ cb_log' = <<>>
    /\ UNCHANGED <<containers, chunk_data, target, list, chunks_, expected, instances, optimized>>

\* ~free_list(): the chunks are destroyed
PoolDestructor ==
    /\ subject = "pool"
    /\ subject' = "none"
    /\ instances' = instances - pool_destroy_all(chunks_)
    /\ ret' = Ret("destructor", nullptr, "none", "none")
    /\ cb_log' = <<>>
    /\ UNCHANGED <<containers, chunk_data, target, list, chunks_, expected, optimized>>

NextPool ==
    \/ \E x \in Values : PoolEmplace(x)
    \/ \E c \in 0 .. MaxChunks - 1, position \in 0 .. ChunkCapacity - 1 :
          PoolErase(c, position)
    \/ PoolSort
    \/ PoolClear
    \/ PoolShrink
    \/ PoolOptimizeAt
    \/ \E index \in PackedInputs : PoolAt(index)
    \/ PoolDestructor

SpecPool == InitPool /\ [][NextPool]_vars

\* the pool driven by emplace and erase only
NextPoolEmplaceErase ==
    \/ \E x \in Values : PoolEmplace(x)
    \/ \E c \in 0 .. MaxChunks - 1, position \in 0 .. ChunkCapacity - 1 :
          PoolErase(c, position)

SpecPoolEmplaceErase == InitPool /\ [][NextPoolEmplaceErase]_vars

\* ------------------------------------------- the pool and its allocator
\* Each chunk is a separate allocation (ptr_vector::emplace_back allocates one
\* chunk_type); the allocator returns the address of any block not in use.  The
\* blocks are numbered in address order.
ChunkAddresses == 0 .. MaxChunks - 1

InUse == {chunk_data[k] : k \in 1 .. Len(chunk_data)}

\* emplace: a new chunk, when one is needed, goes to the back of chunks_
PoolEmplaceAllocating(x, addr) ==
    /\ subject = "pool"
    /\ first_not_full(chunks_) < MaxChunks
    /\ addr \notin InUse
    /\ \E r \in {pool_emplace(chunks_, x)} :
          /\ chunks_' = r.cs
          /\ chunk_data' = IF Len(r.cs) > Len(chunks_) THEN Append(chunk_data, addr)
                           ELSE chunk_data
          /\ ret' = Ret("emplace", r.idx, x, "none")
          /\ expected' = map_put(expected, r.idx, x)
    /\ instances' = instances + 1
    /\ cb_log' = <<>>
    /\ UNCHANGED <<containers, target, list, subject, optimized>>

\* erase: pop_back deallocates the chunk it drops
PoolEraseDeallocating(c, position) ==
    /\ subject = "pool"
    /\ c \in 0 .. Len(chunks_) - 1
    /\ position \in 0 .. ChunkCapacity - 1
    /\ holds_value_at(chunk(chunks_, c), position)
    /\ chunks_' = pool_erase(chunks_, c, position)
    /\ chunk_data' = SubSeq(chunk_data, 1, Len(chunks_'))
    /\ ret' = Ret("erase", pack_index(c, position), "none", "none")
    /\ expected' = map_del(expected, pack_index(c, position))
    /\ instances' = instances - 1
    /\ cb_log' = <<>>
    /\ UNCHANGED <<containers, target, list, subject, optimized>>

\* sort: every chunk sorts its own free chain; chunks_ itself is not touched
PoolSortAllocated ==
    /\ subject = "pool"
    /\ chunks_' = pool_sort(chunks_)
    /\ ret' = Ret("sort", nullptr, "none", "none")
    /\ cb_log' = <<>>
    /\ UNCHANGED <<containers, chunk_data, target, list, subject, expected, instances, optimized>>

\* optimize_at: values move between the chunks, the chunks stay where they
\* are, shrink() pops the empty ones off the back
PoolOptimizeAtDeallocating ==
    /\ subject = "pool"
    /\ \E r \in {pool_optimize_at(chunks_)}, outcome \in UndefinedOutcomes :
          /\ (~r.undefined) => (outcome = "none")
          /\ instances + r.constructed - r.destroyed - pool_size(r.cs) <= MaxLeak
          /\ chunks_' = r.cs
          /\ chunk_data' = SubSeq(chunk_data, 1, Len(r.cs))
          /\ cb_log' = r.log
          /\ expected' = replay_log(expected, r.log)
          /\ instances' = instances + r.constructed - r.destroyed
          /\ ret' = IF r.undefined
                    THEN Undefined("optimize_at", nullptr, "none", outcome)
                    ELSE Ret("optimize_at", nullptr, "none", "none")
          /\ subject' = IF outcome = "crash" THEN "crashed" ELSE subject
    /\ optimized' = TRUE
    /\ UNCHANGED <<containers, target, list>>

NextPoolAllocator ==
    \/ \E x \in Values, addr \in ChunkAddresses : PoolEmplaceAllocating(x, addr)
    \/ \E c \in 0 .. MaxChunks - 1, position \in 0 .. ChunkCapacity - 1 :
          PoolEraseDeallocating(c, position)
    \/ PoolSortAllocated
    \/ PoolOptimizeAtDeallocating

SpecPoolAllocator == InitPool /\ [][NextPoolAllocator]_vars

\* either structure
Init == InitArena \/ InitPool

Next == NextArena \/ NextPool

Spec == Init /\ [][Next]_vars

\* ------------------------------------------- erase in a checked build
\* With assert enabled erase(ptr) first runs assert_holds_value(ptr), which calls
\* holds_value(ptr), which calls as_index(ptr), which runs assert_own(ptr).  The
\* result tells which assertion failed ("none": the erase was carried out).

\* checked erase without assert_holds_value
erase_checked_skips_holds_value(a, off) ==
    IF ~owns(a, off) THEN [a |-> a, failed |-> "assert_own"]
    ELSE [a |-> erase(a, off), failed |-> "none"]

erase_checked(a, off) ==
    IF ~owns(a, off) THEN [a |-> a, failed |-> "assert_own"]
    ELSE IF ~holds_value(a, off) THEN [a |-> a, failed |-> "assert_holds_value"]
    ELSE [a |-> erase(a, off), failed |-> "none"]

\* owning_chunk_no_assert(ptr): the number of the first chunk that owns ptr, or
\* nullptr
owning_chunk_no_assert(cs, ptr) ==
    IF \E d \in 0 .. Len(cs) - 1 : ptr.chunk = d /\ owns(chunk(cs, d), ptr.off)
    THEN ptr.chunk
    ELSE nullptr

\* the pool's erase(ptr): owning_chunk asserts chunk != nullptr, then the chunk's
\* erase asserts, then the last chunk is popped when the erase emptied it
pool_erase_checked(cs, ptr) ==
    LET c == owning_chunk_no_assert(cs, ptr)
    IN IF c = nullptr THEN [cs |-> cs, failed |-> "assert_owning_chunk"]
       ELSE IF erase_checked(chunk(cs, c), ptr.off).failed # "none"
       THEN [cs |-> cs, failed |-> erase_checked(chunk(cs, c), ptr.off).failed]
       ELSE [cs |-> pool_erase(cs, c, ptr.off), failed |-> "none"]

\* the addresses a caller may pass: every slot, one element before and one past
\* the storage
OffsetInputs == (0 - 1) .. Capacity

\* a failed assert aborts the process
ArenaEraseChecked(off) ==
    /\ subject = "arena"
    /\ \E r \in {erase_checked(list, off)} :
          /\ list' = r.a
          /\ ret' = Ret("erase", off, "none",
                        IF r.failed = "none" THEN "none" ELSE "assert")
          /\ subject' = IF r.failed = "none" THEN subject ELSE "aborted"
          /\ expected' = IF r.failed = "none" THEN map_del(expected, off) ELSE expected
          /\ instances' = IF r.failed = "none" THEN instances - 1 ELSE instances
    /\ cb_log' = <<>>
    /\ UNCHANGED <<containers, chunk_data, target, chunks_, optimized>>

\* slot addresses of the chunks that exist and of one chunk that does not
PtrInputs ==
    {SlotPtr(c, off) : c \in 0 .. MaxChunks, off \in (0 - 1) .. ChunkCapacity}

\* the packed index a caller keeps for a slot address
PtrHandle(ptr) == pack_index(ptr.chunk, ptr.off)

PoolEraseChecked(ptr) ==
    /\ subject = "pool"
    /\ \E r \in {pool_erase_checked(chunks_, ptr)} :
          /\ chunks_' = r.cs
          /\ ret' = Ret("erase",
                        IF r.failed = "assert_owning_chunk" THEN nullptr
                        ELSE PtrHandle(ptr),
                        "none",
                        IF r.failed = "none" THEN "none" ELSE "assert")
          /\ subject' = IF r.failed = "none" THEN subject ELSE "aborted"
          /\ expected' = IF r.failed = "none" THEN map_del(expected, PtrHandle(ptr))
                         ELSE expected
          /\ instances' = IF r.failed = "none" THEN instances - 1 ELSE instances
    /\ cb_log' = <<>>
    /\ UNCHANGED <<containers, chunk_data, target, list, optimized>>

NextChecked ==
    \/ \E x \in Values : ArenaEmplace(x)
    \/ ArenaSort
    \/ ArenaOptimizeAt
    \/ \E off \in OffsetInputs : ArenaEraseChecked(off)
    \/ \E x \in Values : PoolEmplace(x)
    \/ PoolSort
    \/ \E ptr \in PtrInputs : PoolEraseChecked(ptr)

SpecChecked == Init /\ [][NextChecked]_vars

\* ------------------------------------------------------- ptr_vector
\* storage_ is a std::vector<T*>; every element is its own allocation.  The
\* model keeps the sequence of the values the pointers lead to.
MaxVector == 5

\* the arena and the pool are not part of these specifications
NoArenaNoPool ==
    /\ list = initialize_empty(Capacity)
    /\ chunks_ = <<>>
    /\ expected = NoHandles
    /\ cb_log = <<>>
    /\ optimized = FALSE
    /\ target = initialize_empty(Capacity)
    /\ chunk_data = <<>>

arena_and_pool == <<list, chunks_, expected, cb_log, optimized, target, chunk_data>>

\* erase(first, last), first and last being begin() + first and begin() + last
vector_erase(u, first, last) ==
    SubSeq(u, 1, first) \o SubSeq(u, last + 1, Len(u))

\* insert(end(), count, value)
vector_insert_end(u, count, value) == u \o [k \in 1 .. count |-> value]

\* resize(count, value)
resize(u, count, value) ==
    LET u1 == IF count = 0 THEN <<>> ELSE u
    IN IF count < Len(u1) THEN vector_erase(u1, Len(u1) - count - 1, Len(u1))
       ELSE IF count > Len(u1) THEN vector_insert_end(u1, count - Len(u1), value)
       ELSE u1

InitPtrVector ==
    /\ NoArenaNoPool
    /\ subject = "ptr_vector"
    /\ vector_storage_ = <<>>
    /\ nodes = <<>>
    /\ sentinel_ = <<>>
    /\ ret = NoRet
    /\ instances = 0

\* the guard bounds the size of the vector
PtrVectorPushBack(x) ==
    /\ subject = "ptr_vector"
    /\ Len(vector_storage_) < MaxVector
    /\ vector_storage_' = Append(vector_storage_, x)
    /\ ret' = Ret("push_back", nullptr, x, "none")
    /\ instances' = instances + 1
    /\ UNCHANGED <<arena_and_pool, nodes, sentinel_, subject>>

\* pop_back() requires a vector that is not empty
PtrVectorPopBack ==
    /\ subject = "ptr_vector"
    /\ vector_storage_ # <<>>
    /\ vector_storage_' = SubSeq(vector_storage_, 1, Len(vector_storage_) - 1)
    /\ ret' = Ret("pop_back", nullptr, "none", "none")
    /\ instances' = instances - 1
    /\ UNCHANGED <<arena_and_pool, nodes, sentinel_, subject>>

PtrVectorResize(count, value) ==
    /\ subject = "ptr_vector"
    /\ vector_storage_' = resize(vector_storage_, count, value)
    /\ ret' = Ret("resize", count, value, "none")
    /\ instances' = Len(vector_storage_')
    /\ UNCHANGED <<arena_and_pool, nodes, sentinel_, subject>>

NextPtrVector ==
    \/ \E x \in Values : PtrVectorPushBack(x)
    \/ PtrVectorPopBack
    \/ \E count \in 0 .. MaxVector, value \in Values : PtrVectorResize(count, value)

SpecPtrVector == InitPtrVector /\ [][NextPtrVector]_vars

\* ---------------------------------------------------- intrusive_list
\* Two lists, "this" and "other", over one allocator.  A node is an allocation
\* with the link fields next and previous and a value v; the sentinel of a list
\* is a node too.  The nodes are numbered by address: the two sentinels are
\* allocated first, then at most MaxNodes elements.  A node that was destroyed
\* and deallocated is not alive.
MaxNodes == 3

ListValues == {1, 2}

NodeIds == 0 .. MaxNodes + 1

ElementIds == 2 .. MaxNodes + 1

DeadNode == [next |-> nullptr, previous |-> nullptr, v |-> 0, alive |-> FALSE]

LiveNode(n, p, x) == [next |-> n, previous |-> p, v |-> x, alive |-> TRUE]

\* node_traits::next(current, new_next), node_traits::previous(current, new_previous)
set_next(ns, current, new_next) == [ns EXCEPT ![current].next = new_next]

set_previous(ns, current, new_previous) ==
    [ns EXCEPT ![current].previous = new_previous]

\* std::destroy_at(ptr); deallocate(ptr, 1)
destroy_node(ns, ptr) == [ns EXCEPT ![ptr] = DeadNode]

\* the nodes from it up to, not including, the node end, following next; fuel
\* bounds the walk over links that do not lead to end
RECURSIVE walk_next(_, _, _, _)
walk_next(ns, it, end, fuel) ==
    IF it = end \/ fuel = 0 \/ it \notin DOMAIN ns THEN <<>>
    ELSE <<it>> \o walk_next(ns, ns[it].next, end, fuel - 1)

\* begin() .. end() of the list with sentinel s
elements(ns, s) == walk_next(ns, ns[s].next, s, MaxNodes + 2)

empty_list(ns, s) == ns[s].next = s

\* _sentinel_reset(sentinel)
sentinel_reset(ns, s) == set_previous(set_next(ns, s, s), s, s)

\* _insert_node(it, node): node goes in front of it
insert_node(ns, it, node) ==
    set_previous(
        set_next(set_previous(set_next(ns, node, it), node, ns[it].previous),
                 ns[it].previous, node),
        it, node)

\* the allocator hands out the lowest free address
allocate(ns) == CHOOSE n \in ElementIds :
                    ~ns[n].alive /\ \A m \in ElementIds : m < n => ns[m].alive

\* _insert_emplace(it, value): allocate, construct, _insert_node
insert_emplace(ns, it, value) ==
    insert_node([ns EXCEPT ![allocate(ns)] = LiveNode(nullptr, nullptr, value)],
                it, allocate(ns))

\* erase(pos)
list_erase(ns, pos) ==
    destroy_node(set_previous(set_next(ns, ns[pos].previous, ns[pos].next),
                              ns[pos].next, ns[pos].previous),
                 pos)

\* the loop of _destroy_range_inclusive: destroy first, stop after last
RECURSIVE destroy_loop(_, _, _, _, _)
destroy_loop(ns, s, first, last, fuel) ==
    IF fuel = 0 \/ first \notin DOMAIN ns THEN ns
    ELSE IF first = last THEN destroy_node(ns, first)
    ELSE destroy_loop(destroy_node(ns, first), s, ns[first].next, last, fuel - 1)

\* _destroy_range_inclusive(first, last)
destroy_range_inclusive(ns, s, first, last) ==
    IF first = s \/ last = s THEN ns
    ELSE destroy_loop(ns, s, first, last, MaxNodes + 2)

\* erase(first, last): last = --last, the nodes around [first, last] are linked
\* to each other, [first, last] is destroyed
list_erase_range(ns, s, first, last) ==
    destroy_range_inclusive(
        set_previous(set_next(ns, ns[first].previous, ns[ns[last].previous].next),
                     ns[ns[last].previous].next, ns[first].previous),
        s, first, ns[last].previous)

\* _extract_nodes(first, last): the nodes around [first, last) are linked to each
\* other; returns first and the node before last
extract_nodes(ns, first, last) ==
    [ns |-> set_previous(set_next(ns, ns[first].previous, last),
                         last, ns[first].previous),
     first |-> first, last_prev |-> ns[last].previous]

\* the links splice writes once the nodes [first_ptr, end_ptr] are extracted
splice_link(ns, ptr, first_ptr, end_ptr) ==
    set_next(
        set_previous(
            set_previous(set_next(ns, ns[ptr].previous, first_ptr),
                         first_ptr, ns[ptr].previous),
            ptr, end_ptr),
        end_ptr, ptr)

\* splice(pos, other, first, last) of a list other than this one
splice_extracted(x, pos) == splice_link(x.ns, pos, x.first, x.last_prev)

list_splice(ns, pos, first, last) ==
    IF first = last THEN ns
    ELSE splice_extracted(extract_nodes(ns, first, last), pos)

\* reverse(): every element swaps its links, then the sentinel does
RECURSIVE reverse_loop(_, _, _, _)
reverse_loop(ns, it, end, fuel) ==
    IF it = end \/ fuel = 0 THEN ns
    ELSE reverse_loop(set_previous(set_next(ns, it, ns[it].previous), it, ns[it].next),
                      ns[it].next, end, fuel - 1)

reverse_sentinel(r, s) == set_previous(set_next(r, s, r[s].previous), s, r[s].next)

list_reverse(ns, s) == reverse_sentinel(reverse_loop(ns, ns[s].next, s, MaxNodes + 2), s)

\* iter_swap(lhs, rhs), the branch for neighbours
iter_swap_adjacent(ns, l, r, lp, rn) ==
    set_previous(
      set_next(
        set_previous(
          set_next(
            set_previous(set_next(ns, lp, r), r, lp),
            r, l),
          l, r),
        l, rn),
      rn, l)

\* iter_swap(lhs, rhs), the branch for nodes apart
iter_swap_apart(ns, l, r, lp, ln, rp, rn) ==
    set_previous(
      set_next(
        set_previous(
          set_next(
            set_previous(
              set_next(
                set_previous(set_next(ns, lp, r), ln, r),
                rp, l),
              rn, l),
            l, rn),
          l, rp),
        r, ln),
      r, lp)

iter_swap(ns, l, r) ==
    IF ns[l].next = r \/ ns[r].next = l
    THEN iter_swap_adjacent(ns, l, r, ns[l].previous, ns[r].next)
    ELSE iter_swap_apart(ns, l, r, ns[l].previous, ns[l].next,
                         ns[r].previous, ns[r].next)

\* sort(comp) with comp = std::less: for (i ...) for (j = ++i ...)
\*     if (comp(*j, *i)) { iter_swap(i, j); std::swap(i, j); }
RECURSIVE sort_inner(_, _, _, _, _)
\* after iter_swap(i, j); std::swap(i, j): i is the node that was j, and ++j
\* steps from the node that was i
sort_swapped(swapped, e, i, j, fuel) ==
    sort_inner(swapped, e, j, swapped[i].next, fuel)

sort_inner(ns, e, i, j, fuel) ==
    IF j = e \/ fuel = 0 THEN [ns |-> ns, i |-> i]
    ELSE IF ns[j].v < ns[i].v
         THEN sort_swapped(iter_swap(ns, i, j), e, i, j, fuel - 1)
         ELSE sort_inner(ns, e, i, ns[j].next, fuel - 1)

RECURSIVE sort_outer(_, _, _, _)
\* ++i once the inner loop is through
sort_advance(r, e, fuel) == sort_outer(r.ns, e, r.ns[r.i].next, fuel)

sort_outer(ns, e, i, fuel) ==
    IF i = e \/ fuel = 0 THEN ns
    ELSE sort_advance(sort_inner(ns, e, i, ns[i].next, MaxNodes + 2), e, fuel - 1)

list_sort(ns, s) == sort_outer(ns, s, ns[s].next, MaxNodes + 2)

\* merge, the two loops: m is [ns, this_it, other_it]
merge_take(m) ==
    [ns |-> insert_node(m.ns, m.this_it, m.other_it),
     this_it |-> m.this_it, other_it |-> m.ns[m.other_it].next]

\* merge that takes an element of other when it is not greater
RECURSIVE merge_loop_takes_equal(_, _, _, _)
merge_loop_takes_equal(m, this_end, past_end_inclusive, fuel) ==
    IF fuel = 0 THEN m
    ELSE IF m.this_it # this_end /\ m.other_it # past_end_inclusive
    THEN IF m.ns[m.other_it].v <= m.ns[m.this_it].v
         THEN merge_loop_takes_equal(merge_take(m), this_end, past_end_inclusive,
                                     fuel - 1)
         ELSE merge_loop_takes_equal([m EXCEPT !.this_it = m.ns[m.this_it].next],
                                     this_end, past_end_inclusive, fuel - 1)
    ELSE IF m.other_it # past_end_inclusive
    THEN merge_loop_takes_equal(merge_take(m), this_end, past_end_inclusive, fuel - 1)
    ELSE m

RECURSIVE merge_loop(_, _, _, _)
merge_loop(m, this_end, past_end_inclusive, fuel) ==
    IF fuel = 0 THEN m
    ELSE IF m.this_it # this_end /\ m.other_it # past_end_inclusive
    THEN IF m.ns[m.other_it].v < m.ns[m.this_it].v
         THEN merge_loop(merge_take(m), this_end, past_end_inclusive, fuel - 1)
         ELSE merge_loop([m EXCEPT !.this_it = m.ns[m.this_it].next],
                         this_end, past_end_inclusive, fuel - 1)
    ELSE IF m.other_it # past_end_inclusive
    THEN merge_loop(merge_take(m), this_end, past_end_inclusive, fuel - 1)
    ELSE m

\* merge(other, comp) with comp = std::less; returns the nodes and the two
\* sentinel_ members afterwards
list_merge(ns, this, other) ==
    IF other = this THEN [ns |-> ns, this |-> this, other |-> other]
    ELSE IF empty_list(ns, this) THEN [ns |-> ns, this |-> other, other |-> this]
    ELSE IF empty_list(ns, other) THEN [ns |-> ns, this |-> this, other |-> other]
    ELSE [ns |-> sentinel_reset(
                     merge_loop([ns |-> extract_nodes(ns, ns[other].next, other).ns,
                                 this_it |-> ns[this].next,
                                 other_it |-> ns[other].next],
                                this, other, 2 * MaxNodes + 2).ns,
                     other),
          this |-> this, other |-> other]

\* ------------------------------------------------ intrusive_list actions
Lists == {"this", "other"}

OtherOf(l) == IF l = "this" THEN "other" ELSE "this"

\* the positions of a list: its elements and end()
positions(ns, s) == elements(ns, s) \o <<s>>

position_set(ns, s) == {positions(ns, s)[k] : k \in 1 .. Len(positions(ns, s))}

\* the iterator pairs [first, last) of a list, first not being end()
ranges(ns, s) ==
    {<<positions(ns, s)[p[1]], positions(ns, s)[p[2]]>> :
        p \in {q \in (1 .. Len(elements(ns, s))) \X (1 .. Len(positions(ns, s))) :
                  q[1] <= q[2]}}

\* the pairs splice takes: those, and the empty range at end()
splice_ranges(ns, s) == ranges(ns, s) \cup {<<s, s>>}

\* a list whose sentinel was destroyed cannot be used any more
Usable == nodes[sentinel_["this"]].alive /\ nodes[sentinel_["other"]].alive

InitIntrusiveList ==
    /\ NoArenaNoPool
    /\ subject = "intrusive_list"
    /\ vector_storage_ = <<>>
    /\ nodes = [n \in NodeIds |-> IF n \in {0, 1} THEN LiveNode(n, n, 0) ELSE DeadNode]
    /\ sentinel_ = [l \in Lists |-> IF l = "this" THEN 0 ELSE 1]
    /\ ret = NoRet
    /\ instances = 0

ListRet(op, l, first, last) ==
    [op |-> op, idx |-> first, val |-> l, thrown |-> "none", undefined |-> FALSE,
     last |-> last]

\* emplace(pos, value); the guard bounds the number of nodes
ListEmplace(l, pos, value) ==
    /\ subject = "intrusive_list" /\ Usable
    /\ \E n \in ElementIds : ~nodes[n].alive
    /\ pos \in position_set(nodes, sentinel_[l])
    /\ nodes' = insert_emplace(nodes, pos, value)
    /\ ret' = ListRet("emplace", l, pos, nullptr)
    /\ instances' = instances + 1
    /\ UNCHANGED <<arena_and_pool, vector_storage_, sentinel_, subject>>

\* erase(pos), pos not being end()
ListErase(l, pos) ==
    /\ subject = "intrusive_list" /\ Usable
    /\ pos \in position_set(nodes, sentinel_[l]) \ {sentinel_[l]}
    /\ nodes' = list_erase(nodes, pos)
    /\ ret' = ListRet("erase", l, pos, nullptr)
    /\ instances' = instances - 1
    /\ UNCHANGED <<arena_and_pool, vector_storage_, sentinel_, subject>>

\* erase(first, last)
ListEraseRange(l, first, last) ==
    /\ subject = "intrusive_list" /\ Usable
    /\ <<first, last>> \in ranges(nodes, sentinel_[l])
    /\ nodes' = list_erase_range(nodes, sentinel_[l], first, last)
    /\ ret' = ListRet("erase_range", l, first, last)
    /\ instances' = Cardinality({n \in ElementIds : nodes'[n].alive})
    /\ UNCHANGED <<arena_and_pool, vector_storage_, sentinel_, subject>>

\* l.splice(pos, other, first, last)
ListSplice(l, pos, first, last) ==
    /\ subject = "intrusive_list" /\ Usable
    /\ pos \in position_set(nodes, sentinel_[l])
    /\ <<first, last>> \in splice_ranges(nodes, sentinel_[OtherOf(l)])
    /\ nodes' = list_splice(nodes, pos, first, last)
    /\ ret' = ListRet("splice", l, first, last)
    /\ UNCHANGED <<arena_and_pool, vector_storage_, sentinel_, subject, instances>>

\* l.merge(other) and l.merge(l)
ListMerge(l, other) ==
    /\ subject = "intrusive_list" /\ Usable
    /\ \E r \in {list_merge(nodes, sentinel_[l], sentinel_[other])} :
          /\ nodes' = r.ns
          /\ sentinel_' = [sentinel_ EXCEPT ![l] = r.this, ![other] = r.other]
    /\ ret' = ListRet("merge", l, nullptr, IF other = l THEN 1 ELSE 0)
    /\ UNCHANGED <<arena_and_pool, vector_storage_, subject, instances>>

ListReverse(l) ==
    /\ subject = "intrusive_list" /\ Usable
    /\ nodes' = list_reverse(nodes, sentinel_[l])
    /\ ret' = ListRet("reverse", l, nullptr, nullptr)
    /\ UNCHANGED <<arena_and_pool, vector_storage_, sentinel_, subject, instances>>

ListSort(l) ==
    /\ subject = "intrusive_list" /\ Usable
    /\ nodes' = list_sort(nodes, sentinel_[l])
    /\ ret' = ListRet("sort", l, nullptr, nullptr)
    /\ UNCHANGED <<arena_and_pool, vector_storage_, sentinel_, subject, instances>>

\* swap(other): std::swap(sentinel_, other.sentinel_)
ListSwap ==
    /\ subject = "intrusive_list" /\ Usable
    /\ sentinel_' = [l \in Lists |-> sentinel_[OtherOf(l)]]
    /\ ret' = ListRet("swap", "this", nullptr, nullptr)
    /\ UNCHANGED <<arena_and_pool, vector_storage_, nodes, subject, instances>>

NextIntrusiveList ==
    \/ \E l \in Lists : \E pos \in position_set(nodes, sentinel_[l]) :
          \E value \in ListValues : ListEmplace(l, pos, value)
    \/ \E l \in Lists : \E pos \in position_set(nodes, sentinel_[l]) : ListErase(l, pos)
    \/ \E l \in Lists : \E r \in ranges(nodes, sentinel_[l]) :
          ListEraseRange(l, r[1], r[2])
    \/ \E l \in Lists : \E pos \in position_set(nodes, sentinel_[l]) :
          \E r \in splice_ranges(nodes, sentinel_[OtherOf(l)]) :
             ListSplice(l, pos, r[1], r[2])
    \/ \E l \in Lists, other \in Lists : ListMerge(l, other)
    \/ \E l \in Lists : ListReverse(l)
    \/ \E l \in Lists : ListSort(l)
    \/ ListSwap

SpecIntrusiveList == InitIntrusiveList /\ [][NextIntrusiveList]_vars

\* ------------------------------------------------------- observations
\* the slots that hold a live T, by what was last constructed in them
Occupied(a) == {i \in DOMAIN a.storage_ : a.storage_[i].kind = "T"}

\* the exact handle -> value map of an arena
ValueMap(a) == [i \in Occupied(a) |-> a.storage_[i].v]

\* the free chain is acyclic, stays inside the storage, runs through offset
\* records only and ends at the sentinel
ChainWellFormed(a) ==
    LET c == free_chain(a)
    IN /\ Len(c) <= CapacityOf(a)
       /\ \A k \in 1 .. Len(c) :
             /\ c[k] \in DOMAIN a.storage_
             /\ a.storage_[c[k]].kind = "offset"
             /\ a.storage_[c[k]].v = (IF k = Len(c) THEN offset_type_npos ELSE c[k + 1])
       /\ \A k1, k2 \in 1 .. Len(c) : k1 # k2 => c[k1] # c[k2]
       /\ (Len(c) = 0) => (a.first_free_ = offset_type_npos)

\* occupied prefix, free suffix, the chain threading the suffix in ascending order
Compacted(a) ==
    LET cap == CapacityOf(a)
    IN /\ Occupied(a) = 0 .. size(a) - 1
       /\ free_mask(a) = size(a) .. cap - 1
       /\ free_chain(a) = [k \in 1 .. cap - size(a) |-> size(a) + k - 1]
       /\ a.first_free_ = (IF size(a) = cap THEN offset_type_npos ELSE size(a))
       /\ \A i \in size(a) .. cap - 1 :
             a.storage_[i] = OffsetSlot(IF i = cap - 1 THEN offset_type_npos ELSE i + 1)

\* the number of slots holding value x
CountOf(a, x) == Cardinality({i \in Occupied(a) : a.storage_[i].v = x})

\* the slots of the pool, as addresses
OwnedSlots(cs) ==
    {SlotPtr(c, off) : c \in 0 .. Len(cs) - 1, off \in 0 .. ChunkCapacity - 1}

\* the number of free slots of the pool, by the chunks' free chains
RECURSIVE PoolFree(_)
PoolFree(cs) ==
    IF cs = <<>> THEN 0 ELSE Cardinality(free_mask(Head(cs))) + PoolFree(Tail(cs))

\* the number of slots of the pool holding a live T
RECURSIVE PoolOccupied(_)
PoolOccupied(cs) ==
    IF cs = <<>> THEN 0 ELSE Cardinality(Occupied(Head(cs))) + PoolOccupied(Tail(cs))

\* the packed indices of the slots of the pool that hold a live T
PoolHandles(cs) ==
    {pack_index(p.chunk, p.off) : p \in {q \in OwnedSlots(cs) : q.off \in Occupied(chunk(cs, q.chunk))}}

\* the exact packed index -> value map of the pool
PoolValueMap(cs) ==
    [i \in PoolHandles(cs) |->
        chunk(cs, unpack_index(i).chunk).storage_[unpack_index(i).position].v]

\* the occupied counts of the chunks, in chunk order
ChunkSizes(cs) == [k \in 1 .. Len(cs) |-> Cardinality(Occupied(cs[k]))]

\* sample positions at both ends of the std::uint16_t range
PositionSamples == {0, 1, 2, 2 ^ 16 - 2, 2 ^ 16 - 1}

\* sample chunk numbers; 2^15 - 1 is the largest whose shift by 16 bits stays
\* within the integers of the model checker
ChunkSamples == {0, 1, 2, 2 ^ 15 - 2, 2 ^ 15 - 1}

\* ------------------------------------------------------------ claims

\* C1: after the arena's optimize_at returns, the occupied slots are exactly
\* 0..size()-1, the free slots exactly size()..Capacity-1, and the free chain
\* walked from first_free visits that suffix in ascending order up to the
\* sentinel (first_free == size(), or the sentinel when the arena is full).
C1_OptimizeCompacts ==
    (subject = "arena" /\ ret.op = "optimize_at") => Compacted(list)

C1_Witness ==
    /\ subject = "arena" /\ ret.op = "optimize_at"
    /\ Len(cb_log) >= 2
    /\ size(list) = 2

\* C2: in every arena state size() equals Capacity minus the number of slots
\* on the free chain.
C2_SizePlusFreeIsCapacity ==
    (subject = "arena") => (size(list) + Cardinality(free_mask(list)) = Capacity)

C2_Witness ==
    /\ subject = "arena" /\ ret.op = "erase"
    /\ optimized
    /\ size(list) = 2
    /\ ~is_sorted(list)

\* C3: in every arena state the free chain is acyclic, stays below Capacity,
\* visits every free slot exactly once and ends at the sentinel, and every
\* slot that is not on the chain holds a live value.
C3_SlotIsFreeOrOccupied ==
    (subject = "arena") =>
        /\ ChainWellFormed(list)
        /\ Occupied(list) = (0 .. Capacity - 1) \ free_mask(list)

C3_Witness ==
    /\ subject = "arena"
    /\ free_chain(list) = <<2, 0>>
    /\ Occupied(list) = {1, 3}

\* C4: a step of the arena's optimize_at keeps every live value: the value that
\* was at index i is afterwards at `to` if a callback (i, to) was made and at i
\* if not, and replaying the callbacks in order on the caller's index -> value
\* map gives exactly the occupied slots and their values.
C4_ReplayTracksValues ==
    [][(subject = "arena" /\ ret'.op = "optimize_at") =>
        /\ \A i \in Occupied(list) :
              LET ks == {k \in 1 .. Len(cb_log') : cb_log'[k].from = i}
              IN IF ks = {}
                 THEN list'.storage_[i] = list.storage_[i]
                 ELSE \A k \in ks : list'.storage_[cb_log'[k].to] = list.storage_[i]
        /\ replay_log(ValueMap(list), cb_log') = ValueMap(list')
        /\ \A h \in DOMAIN ValueMap(list') : holds_value_at(list', h)
        /\ expected' = ValueMap(list')
      ]_vars

C4_Witness ==
    /\ subject = "arena" /\ ret.op = "optimize_at"
    /\ Len(cb_log) = 1
    /\ size(list) = 3
    /\ \E h \in DOMAIN expected : expected[h] # expected[0]

\* C5: during the arena's optimize_at the callback is made exactly once for each
\* value that changes slot and never for a value that stays; for each reported
\* (from, to), `from` held a value and `to` was free just before the move, and
\* to < from.
C5_CallbackOncePerMove ==
    [][(subject = "arena" /\ ret'.op = "optimize_at") =>
        LET log == cb_log'
            froms == {log[k].from : k \in 1 .. Len(log)}
            tos == {log[k].to : k \in 1 .. Len(log)}
        IN /\ \A k \in 1 .. Len(log) :
                 /\ log[k].from_held
                 /\ log[k].to_free
                 /\ log[k].to < log[k].from
           /\ \A k1, k2 \in 1 .. Len(log) :
                 k1 # k2 => (log[k1].from # log[k2].from /\ log[k1].to # log[k2].to)
           /\ froms \cap tos = {}
           /\ froms = Occupied(list) \ Occupied(list')
           /\ tos = Occupied(list') \ Occupied(list)
           /\ \A i \in Occupied(list) \ froms : list'.storage_[i] = list.storage_[i]
      ]_vars

C5_Witness ==
    /\ subject = "arena" /\ ret.op = "optimize_at"
    /\ Len(cb_log) = 2
    /\ size(list) = 2
    /\ list.storage_[0].v # list.storage_[1].v

\* the number of slots of the pool holding value x
RECURSIVE PoolCountOf(_, _)
PoolCountOf(cs, x) ==
    IF cs = <<>> THEN 0 ELSE CountOf(Head(cs), x) + PoolCountOf(Tail(cs), x)

\* C6: a step of optimize_at, on an arena and on a pool, returns and leaves
\* size() and the multiset of live values unchanged.
C6_OptimizeKeepsValues ==
    [][(ret'.op = "optimize_at") =>
        /\ (subject = "arena") =>
              /\ size(list') = size(list)
              /\ \A x \in Values : CountOf(list', x) = CountOf(list, x)
        /\ (subject = "pool") =>
              /\ ~ret'.undefined
              /\ pool_size(chunks_') = pool_size(chunks_)
              /\ \A x \in Values : PoolCountOf(chunks_', x) = PoolCountOf(chunks_, x)
      ]_vars

\* C7: the number of live T instances equals the number of occupied slots
\* while the structure exists, and is zero once it is destroyed.
C7_InstancesMatchSize ==
    /\ (subject = "arena") => (instances = size(list))
    /\ (subject = "pool") => (instances = pool_size(chunks_))
    /\ (subject = "none") => (instances = 0)

\* C8: as long as optimize was never called, holds_value_at(i) is true exactly
\* for the indices returned by an emplace and not erased since, at(i) yields
\* the value passed to that emplace, and emplace never returns a slot that
\* still holds a live value.
C8_HandlesDenoteValues ==
    [][(subject' = "arena" /\ ~optimized') =>
        /\ \A i \in 0 .. Capacity - 1 :
              /\ holds_value_at(list', i) <=> (i \in DOMAIN expected')
              /\ (i \in DOMAIN expected') => (at(list', i) = {Returned(i, expected'[i])})
        /\ (ret'.op = "emplace" /\ ret'.idx # nullptr) =>
              (ret'.idx \notin DOMAIN expected /\ ~holds_value_at(list, ret'.idx))
      ]_vars

C8_Witness ==
    /\ subject = "arena" /\ ~optimized
    /\ ret.op = "emplace" /\ ret.idx = 1
    /\ DOMAIN expected = {0, 1, 3}
    /\ expected[1] # expected[0]

\* C9: at(idx) throws std::out_of_range when idx >= Capacity and when slot idx
\* is free, and returns the slot's value otherwise.
C9_AtThrowsUnlessOccupied ==
    (subject = "arena" /\ ret.op = "at") =>
        IF ret.idx >= Capacity \/ ret.idx \in free_mask(list)
        THEN ret.thrown = "out_of_range"
        ELSE ret.thrown = "none" /\ ret.val = list.storage_[ret.idx].v

\* C10: free_list::at(index) throws std::out_of_range for every packed index that
\* does not denote an occupied slot of the pool, whatever its chunk number, never
\* indexes a chunk outside the collection, and returns the value of an occupied
\* slot.
C10_PoolAtThrowsUnlessOccupied ==
    (subject \in {"pool", "crashed"} /\ ret.op = "at") =>
        LET u == unpack_index(ret.idx)
        IN /\ ~ret.undefined
           /\ IF /\ u.chunk < Len(chunks_)
                 /\ u.position < ChunkCapacity
                 /\ holds_value_at(chunk(chunks_, u.chunk), u.position)
              THEN /\ ret.thrown = "none"
                   /\ ret.val = chunk(chunks_, u.chunk).storage_[u.position].v
              ELSE ret.thrown = "out_of_range"

\* C11: emplace on an arena whose free chain is empty (size() == Capacity)
\* returns null and changes neither size(), first_free nor any slot.
C11_EmplaceOnFullChangesNothing ==
    [][(subject = "arena" /\ ret'.op = "emplace" /\ size(list) = Capacity) =>
        /\ free_mask(list) = {}
        /\ ret'.idx = nullptr
        /\ size(list') = size(list)
        /\ list'.first_free_ = list.first_free_
        /\ list'.storage_ = list.storage_
        /\ expected' = expected
      ]_vars

C11_Witness ==
    /\ subject = "arena" /\ ret.op = "emplace" /\ ret.idx = nullptr
    /\ size(list) = Capacity
    /\ optimized
    /\ \E i \in 0 .. Capacity - 1 : list.storage_[i].v # list.storage_[0].v

\* C12: emplace on an arena that is not full constructs the value in the slot
\* at the head of the free chain, makes that slot's link the new first_free,
\* increments size() by exactly 1 and changes no other slot.
C12_EmplaceTakesChainHead ==
    [][(subject = "arena" /\ ret'.op = "emplace" /\ size(list) < Capacity) =>
        LET head == list.first_free_
        IN /\ head \in 0 .. Capacity - 1
           /\ list.storage_[head].kind = "offset"
           /\ ret'.idx = head
           /\ list'.storage_[head] = ValueSlot(ret'.val)
           /\ list'.first_free_ = list.storage_[head].v
           /\ size(list') = size(list) + 1
           /\ \A i \in (0 .. Capacity - 1) \ {head} : list'.storage_[i] = list.storage_[i]
           /\ free_chain(list') = Tail(free_chain(list))
      ]_vars

C12_Witness ==
    /\ subject = "arena" /\ ret.op = "emplace" /\ ret.idx = 2
    /\ list.first_free_ = 0
    /\ Occupied(list) = {1, 2}
    /\ list.storage_[1].v # list.storage_[2].v

\* C13: erase(p) of an occupied arena slot makes p free and the new head of the
\* free chain, linked to the previous head, so that an emplace issued directly
\* afterwards reuses p; it decrements size() by exactly 1 and changes neither
\* the occupancy nor the value of any other slot.
C13_EraseMakesSlotChainHead ==
    [][(subject = "arena" /\ ret'.op = "erase") =>
        LET p == ret'.idx
        IN /\ p \in Occupied(list)
           /\ p \in free_mask(list')
           /\ list'.first_free_ = p
           /\ list'.storage_[p] = OffsetSlot(list.first_free_)
           /\ free_chain(list') = <<p>> \o free_chain(list)
           /\ \A x \in Values : emplace(list', x).idx = p
           /\ size(list') = size(list) - 1
           /\ \A i \in (0 .. Capacity - 1) \ {p} : list'.storage_[i] = list.storage_[i]
           /\ Occupied(list') = Occupied(list) \ {p}
      ]_vars

C13_Witness ==
    /\ subject = "arena" /\ ret.op = "erase" /\ ret.idx = 1
    /\ free_chain(list) = <<1, 3>>
    /\ Occupied(list) = {0, 2}

\* C14: after sort() on an arena, is_sorted() is true (the chain walked from
\* first_free visits strictly increasing indices and ends at the sentinel), the
\* set of free slots is the same as before the call, and no occupied value,
\* nor size(), changes.
C14_SortOrdersChain ==
    [][(subject = "arena" /\ ret'.op = "sort") =>
        /\ is_sorted(list')
        /\ ChainWellFormed(list')
        /\ \A k \in 1 .. Len(free_chain(list')) - 1 :
              free_chain(list')[k] < free_chain(list')[k + 1]
        /\ free_mask(list') = free_mask(list)
        /\ \A i \in Occupied(list) : list'.storage_[i] = list.storage_[i]
        /\ Occupied(list') = Occupied(list)
        /\ size(list') = size(list)
      ]_vars

C14_Witness ==
    /\ subject = "arena" /\ ret.op = "sort"
    /\ free_chain(list) = <<0, 2>>
    /\ Occupied(list) = {1, 3}
    /\ list.storage_[1].v # list.storage_[3].v

\* C15: for the pool, capacity() is the number of chunks times ChunkCapacity,
\* size() is the sum of the chunks' occupied counts, size() plus the free
\* slots is capacity(), and capacity() changes only in a step that appends or
\* drops a chunk.
C15_PoolCapacityConserved ==
    [][(subject = "pool" /\ subject' = "pool") =>
        /\ pool_capacity(chunks_') = Len(chunks_') * ChunkCapacity
        /\ pool_size(chunks_') = PoolOccupied(chunks_')
        /\ pool_size(chunks_') + PoolFree(chunks_') = pool_capacity(chunks_')
        /\ (pool_capacity(chunks_') # pool_capacity(chunks_)) =>
              /\ Len(chunks_') # Len(chunks_)
              /\ ret'.op \in {"emplace", "erase", "optimize_at", "shrink", "clear"}
      ]_vars

C15_Witness ==
    /\ subject = "pool" /\ ret.op = "erase"
    /\ optimized
    /\ ChunkSizes(chunks_) = <<1, 2>>
    /\ PoolFree(chunks_) = 1

\* C16: free_list::emplace constructs the value in the first chunk, in chunk
\* order, that is not full; it appends exactly one new chunk if and only if
\* every existing chunk is full (or there is none); it always returns a slot.
C16_PoolEmplaceFirstNotFull ==
    [][(subject = "pool" /\ ret'.op = "emplace") =>
        LET n == Len(chunks_)
            open == {c \in 0 .. n - 1 : Cardinality(Occupied(chunk(chunks_, c))) < ChunkCapacity}
            u == unpack_index(ret'.idx)
        IN /\ Len(chunks_') = (IF open = {} THEN n + 1 ELSE n)
           /\ u.chunk = (IF open = {} THEN n ELSE CHOOSE c \in open : \A d \in open : c <= d)
           /\ u.chunk < Len(chunks_') /\ u.position < ChunkCapacity
           /\ chunk(chunks_', u.chunk).storage_[u.position] = ValueSlot(ret'.val)
           /\ (u.chunk < n) => (ret'.idx \notin PoolHandles(chunks_))
           /\ pool_size(chunks_') = pool_size(chunks_) + 1
           /\ \A c \in (0 .. n - 1) \ {u.chunk} : chunk(chunks_', c) = chunk(chunks_, c)
           /\ (open = {}) => (ChunkSizes(chunks_') = Append(ChunkSizes(chunks_), 1))
      ]_vars

C16_Witness ==
    /\ subject = "pool" /\ ret.op = "emplace"
    /\ ret.idx = pack_index(2, 0)
    /\ ChunkSizes(chunks_) = <<2, 2, 1>>
    /\ ~optimized

\* C17: free_list::erase(handle) releases the slot in the chunk that owns it;
\* if that chunk thereby becomes empty and is the last chunk, the chunk is
\* dropped at once and capacity() decreases by ChunkCapacity; otherwise the
\* number of chunks is unchanged.
C17_PoolEraseDropsEmptyLastChunk ==
    [][(subject = "pool" /\ ret'.op = "erase") =>
        LET n == Len(chunks_)
            u == unpack_index(ret'.idx)
            drop == /\ u.chunk = n - 1
                    /\ Occupied(chunk(chunks_, u.chunk)) = {u.position}
        IN /\ ret'.idx \in PoolHandles(chunks_)
           /\ ret'.idx \notin PoolHandles(chunks_')
           /\ PoolHandles(chunks_') = PoolHandles(chunks_) \ {ret'.idx}
           /\ pool_size(chunks_') = pool_size(chunks_) - 1
           /\ drop => /\ Len(chunks_') = n - 1
                       /\ pool_capacity(chunks_') = pool_capacity(chunks_) - ChunkCapacity
                       /\ chunks_' = SubSeq(chunks_, 1, n - 1)
           /\ (~drop) => /\ Len(chunks_') = n
                          /\ chunk(chunks_', u.chunk) = erase(chunk(chunks_, u.chunk), u.position)
           /\ \A c \in (0 .. Len(chunks_') - 1) \ {u.chunk} :
                 chunk(chunks_', c) = chunk(chunks_, c)
      ]_vars

C17_Witness ==
    /\ subject = "pool" /\ ret.op = "erase"
    /\ ret.idx = pack_index(2, 0)
    /\ ChunkSizes(chunks_) = <<2, 2>>
    /\ pool_capacity(chunks_) = 4

\* C18: after any sequence of emplace and erase on a pool, the last chunk of
\* the collection is not empty unless the whole pool holds no value.
C18_TailChunkNotEmpty ==
    (subject = "pool" /\ chunks_ # <<>> /\ pool_size(chunks_) > 0) =>
        ~empty(chunks_[Len(chunks_)])

C20_PoolHandlesDenoteValues ==
    [][(subject' = "pool" /\ ~optimized') =>
        /\ \A i \in DOMAIN expected' :
              /\ unpack_index(i).chunk < Len(chunks_')
              /\ pool_holds_value_at(chunks_', i)
              /\ pool_at(chunks_', i) = {Returned(i, expected'[i])}
        /\ expected' = PoolValueMap(chunks_')
        /\ \A i \in DOMAIN expected \cap DOMAIN expected' : expected'[i] = expected[i]
        /\ (ret'.op = "emplace") => (ret'.idx \notin DOMAIN expected)
        /\ (ret'.op = "erase") => (DOMAIN expected' = DOMAIN expected \ {ret'.idx})
      ]_vars

C20_Witness ==
    /\ subject = "pool" /\ ~optimized
    /\ ret.op = "erase" /\ ret.idx = pack_index(2, 0)
    /\ DOMAIN expected = {pack_index(0, 1), pack_index(1, 0), pack_index(1, 1)}
    /\ expected[pack_index(0, 1)] # expected[pack_index(1, 1)]

\* C21: after free_list::optimize_at on a pool holding at least one value, the
\* number of chunks is ceil(size() / ChunkCapacity), every chunk except the
\* last is full, and capacity() is the smallest multiple of ChunkCapacity
\* that is >= size().
C21_OptimizeMinimizesChunks ==
    (subject = "pool" /\ ret.op = "optimize_at" /\ pool_size(chunks_) >= 1) =>
        /\ ~ret.undefined
        /\ Len(chunks_) = (pool_size(chunks_) + ChunkCapacity - 1) \div ChunkCapacity
        /\ \A c \in 0 .. Len(chunks_) - 2 :
              Cardinality(Occupied(chunk(chunks_, c))) = ChunkCapacity
        /\ pool_capacity(chunks_) >= pool_size(chunks_)
        /\ pool_capacity(chunks_) - ChunkCapacity < pool_size(chunks_)

C21_Witness ==
    /\ subject = "pool" /\ ret.op = "optimize_at"
    /\ Len(cb_log) = 2
    /\ ChunkSizes(chunks_) = <<2, 1>>

\* C22: after free_list::optimize_at every chunk of the pool is internally
\* compacted: within each chunk the occupied slots are exactly the indices
\* 0..count-1, whatever the number of chunks.
C22_OptimizeCompactsEveryChunk ==
    (subject = "pool" /\ ret.op = "optimize_at" /\ ~ret.undefined) =>
        \A c \in 0 .. Len(chunks_) - 1 :
            Occupied(chunk(chunks_, c)) = 0 .. size(chunk(chunks_, c)) - 1

\* C23: the caller's packed-index -> value map, replayed with the callbacks of
\* optimize_at in order, is exactly the occupied slots of the pool and their
\* values: a value reported as (from, to) is at `to`, an unreported one at its
\* old packed index; no value is reported twice and both arguments are packed
\* (chunk, offset) indices of slots.
C23_PoolReplayTracksValues ==
    (subject = "pool") =>
        /\ expected = PoolValueMap(chunks_)
        /\ (ret.op = "optimize_at") =>
              /\ \A k \in 1 .. Len(cb_log) :
                    /\ unpack_index(cb_log[k].from).position < ChunkCapacity
                    /\ unpack_index(cb_log[k].to).position < ChunkCapacity
                    /\ cb_log[k].to < cb_log[k].from
                    /\ pack_index(unpack_index(cb_log[k].to).chunk,
                                  unpack_index(cb_log[k].to).position) = cb_log[k].to
              /\ \A k1, k2 \in 1 .. Len(cb_log) :
                    (k1 < k2) => /\ cb_log[k1].from # cb_log[k2].from
                                 /\ cb_log[k1].to # cb_log[k2].from
                                 /\ cb_log[k1].to # cb_log[k2].to
              /\ \A k \in 1 .. Len(cb_log) : cb_log[k].to \in DOMAIN expected

C23_Witness ==
    /\ subject = "pool" /\ ret.op = "optimize_at"
    /\ Len(cb_log) = 2
    /\ unpack_index(cb_log[1].from).chunk # unpack_index(cb_log[1].to).chunk
    /\ \E h \in DOMAIN expected : expected[h] # expected[0]

\* C24: after free_list::shrink() the call has returned, the pool has no empty
\* trailing chunk, and a pool holding no value has zero chunks.
C24_ShrinkDropsEmptyTail ==
    (ret.op = "shrink") =>
        /\ ~ret.undefined
        /\ subject = "pool"
        /\ (chunks_ = <<>>) \/ ~empty(chunks_[Len(chunks_)])
        /\ (pool_size(chunks_) = 0) => (chunks_ = <<>>)

\* C25: if constructing the value throws during arena emplace, the arena is
\* left as it was before the call: the target slot is still on the free chain,
\* first_free and size() are unchanged, and size() == Capacity - (free chain
\* length) still holds.
C25_EmplaceThrowLeavesArena ==
    [][(ret'.op = "emplace" /\ ret'.thrown = "exception") =>
        /\ list' = list
        /\ ret'.idx \in free_mask(list')
        /\ size(list') + Cardinality(free_mask(list')) = Capacity
      ]_vars

\* C26: if constructing the moved-to copy throws during optimize_at, the source
\* slot still holds its value, the value is not duplicated or lost, and the
\* free chain and size() of the arena are consistent.
C26_OptimizeThrowLeavesArena ==
    (ret.op = "optimize_at" /\ ret.thrown = "exception") =>
        /\ list.storage_[ret.idx].kind = "T"
        /\ ret.idx \notin free_mask(list)
        /\ ChainWellFormed(list)
        /\ Occupied(list) = (0 .. Capacity - 1) \ free_mask(list)
        /\ size(list) + Cardinality(free_mask(list)) = Capacity

\* C27: a copy of an arena (copy construction, or copy assignment to an arena
\* that already holds values) has the same size(), the same free_mask() and an
\* equal value at every occupied index as the source; the source is unchanged.
C27_CopyEqualsSource ==
    [][(ret'.op \in {"copy_constructor", "copy_assignment"}) =>
        /\ list' = list
        /\ size(target') = size(list)
        /\ free_mask(target') = free_mask(list)
        /\ Occupied(target') = Occupied(list)
        /\ \A i \in Occupied(list) :
              /\ target'.storage_[i] = list.storage_[i]
              /\ at(target', i) = {Returned(i, list.storage_[i].v)}
        /\ ChainWellFormed(target')
      ]_vars

C27_Witness ==
    /\ subject = "arena" /\ ret.op = "copy_assignment"
    /\ free_chain(target) = <<2, 0>>
    /\ Occupied(target) = {1, 3}
    /\ target.storage_[1].v # target.storage_[3].v
    /\ target = list
    /\ instances = 4

\* C28: after move construction or move assignment of an arena, the source is
\* empty (size() == 0 and every slot free, as freshly constructed) and the
\* target holds, at each index that was occupied in the source before the
\* move, the value the source held there.
C28_MoveEmptiesSource ==
    [][(ret'.op \in {"move_constructor", "move_assignment"}) =>
        /\ list' = initialize_empty(Capacity)
        /\ size(list') = 0
        /\ free_mask(list') = 0 .. Capacity - 1
        /\ size(target') = size(list)
        /\ Occupied(target') = Occupied(list)
        /\ \A i \in Occupied(list) :
              /\ holds_value_at(target', i)
              /\ at(target', i) = {Returned(i, list.storage_[i].v)}
        /\ ChainWellFormed(target')
      ]_vars

C28_Witness ==
    /\ subject = "arena" /\ ret.op = "move_assignment"
    /\ free_chain(target) = <<2, 0>>
    /\ Occupied(target) = {1, 3}
    /\ target.storage_[1].v # target.storage_[3].v
    /\ size(list) = 0

\* C29: in a checked build, erase of a handle that does not reference a currently
\* occupied slot (an erased slot, a slot a relocation left, an address outside the
\* storage of the arena or of every chunk of the pool) fails an assertion, and
\* nothing of the arena or the pool was modified.  The occupied slots are taken
\* from the caller's map of live handles.
ArenaHandleValid(off) == off \in DOMAIN expected

PoolHandleValid(ptr) ==
    /\ ptr.chunk \in 0 .. MaxChunks - 1
    /\ ptr.off \in 0 .. ChunkCapacity - 1
    /\ PtrHandle(ptr) \in DOMAIN expected

Rejected ==
    /\ ret'.thrown = "assert"
    /\ subject' = "aborted"
    /\ list' = list
    /\ chunks_' = chunks_
    /\ instances' = instances

C29_InvalidEraseAsserts ==
    [][ /\ \A off \in OffsetInputs :
              (ArenaEraseChecked(off) /\ ~ArenaHandleValid(off)) => Rejected
        /\ \A ptr \in PtrInputs :
              (PoolEraseChecked(ptr) /\ ~PoolHandleValid(ptr)) => Rejected ]_vars

\* a double erase of the arena: the slot is on the free chain, another holds a value
C29_Witness ==
    /\ subject = "aborted"
    /\ ret.op = "erase"
    /\ ret.thrown = "assert"
    /\ chunks_ = <<>>
    /\ ret.idx \in free_mask(list)
    /\ size(list) = 1
    /\ list.first_free_ # ret.idx

\* what one iteration did, s being the loop state before it and t after it
AdvancesLeft(s, t) ==
    t.left = s.left + 1 /\ t.right = s.right /\ Len(t.log) = Len(s.log)

RetreatsRight(s, t) ==
    t.left = s.left /\ t.right = s.right - 1 /\ Len(t.log) = Len(s.log)

RelocatesOne(s, t) ==
    t.left = s.left /\ t.right = s.right /\ Len(t.log) = Len(s.log) + 1

\* the iterations of optimize_at on the arena a, as pairs of loop states
IterationPairs(a) ==
    {<<optimize_iterations(optimize_start(a))[k],
       optimize_iterations(optimize_start(a))[k + 1]>> :
        k \in 1 .. Len(optimize_iterations(optimize_start(a))) - 1}

IterationCount(a) == Len(optimize_iterations(optimize_start(a))) - 1

\* C30 as stated: every iteration of the loop of optimize_at advances left or
\* retreats right, and the loop runs at most Capacity iterations.
C30_EveryIterationMovesACursor ==
    [][ ret'.op = "optimize_at" =>
          /\ \A p \in IterationPairs(list) :
                AdvancesLeft(p[1], p[2]) \/ RetreatsRight(p[1], p[2])
          /\ IterationCount(list) <= Capacity ]_vars

\* C30, amended: optimize_at terminates; every iteration of its loop advances
\* left by one, retreats right by one, or relocates one value and leaves both
\* cursors; the loop runs Capacity - 1 cursor steps and one iteration per
\* relocation, at most Capacity - 1 + Capacity \div 2 iterations.
C30_IterationsBounded ==
    [][ ret'.op = "optimize_at" =>
          /\ \A p \in IterationPairs(list) :
                \/ AdvancesLeft(p[1], p[2])
                \/ RetreatsRight(p[1], p[2])
                \/ RelocatesOne(p[1], p[2])
          /\ IterationCount(list) = Capacity - 1 + Len(cb_log')
          /\ IterationCount(list) <= Capacity - 1 + Capacity \div 2 ]_vars

\* a run with two relocations, Capacity + 1 iterations
C30_Witness ==
    /\ subject = "arena"
    /\ ret.op = "optimize_at"
    /\ Len(cb_log) = 2
    /\ size(list) = 2
    /\ Compacted(list)

\* the slots of the arena a step turned from free to occupied and back, by the
\* arena's own free_mask()
BecameOccupied == {i \in 0 .. Capacity - 1 : i \in free_mask(list) /\ i \notin free_mask(list')}

BecameFree == {i \in 0 .. Capacity - 1 : i \notin free_mask(list) /\ i \in free_mask(list')}

RelocatedFrom == {cb_log'[k].from : k \in 1 .. Len(cb_log')}

RelocatedTo == {cb_log'[k].to : k \in 1 .. Len(cb_log')}

\* C31 as stated: a freshly constructed arena has every slot free, a slot turns
\* occupied only by the emplace that returns it and turns free only by the erase
\* of it.
C31_OnlyEmplaceAndEraseChangeSlots ==
    /\ (subject = "arena" => free_mask(list) = 0 .. Capacity - 1)
    /\ [][ subject' = "arena" =>
             /\ \A i \in BecameOccupied : ret'.op = "emplace" /\ ret'.idx = i
             /\ \A i \in BecameFree : ret'.op = "erase" /\ ret'.idx = i ]_vars

\* C31, amended: a freshly constructed arena has every slot free; under emplace,
\* erase, sort, at, clear and optimize_at a slot turns occupied only by the
\* emplace that returns it or by optimize_at relocating a value into it, and
\* turns free only by the erase of it, by clear, or by optimize_at relocating
\* its value out of it.
C31_SlotTransitions ==
    /\ (subject = "arena" => free_mask(list) = 0 .. Capacity - 1)
    /\ [][ subject' = "arena" =>
             /\ \A i \in BecameOccupied :
                   \/ ret'.op = "emplace" /\ ret'.idx = i
                   \/ ret'.op = "optimize_at" /\ i \in RelocatedTo
             /\ \A i \in BecameFree :
                   \/ ret'.op = "erase" /\ ret'.idx = i
                   \/ ret'.op = "clear"
                   \/ ret'.op = "optimize_at" /\ i \in RelocatedFrom ]_vars

\* optimize_at has relocated the value of slot 3 into slot 0
C31_Witness ==
    /\ subject = "arena"
    /\ ret.op = "optimize_at"
    /\ cb_log = <<[from |-> 3, to |-> 0, from_held |-> TRUE, to_free |-> TRUE]>>
    /\ free_mask(list) = {2, 3}

\* C32: the chunks of the pool are in the order of the base addresses of their
\* storage: data() of the chunk at position i is below data() of the chunk at
\* position j for all i < j.
C32_ChunksAddressOrdered ==
    subject = "pool" =>
        \A i \in 1 .. Len(chunk_data), j \in 1 .. Len(chunk_data) :
            i < j => chunk_data[i] < chunk_data[j]

\* C33: within one optimize_at call of the pool no value is relocated twice:
\* the `from` arguments of the callbacks are pairwise distinct and no `to` of a
\* callback is the `from` of a later one.
C33_NoValueRelocatedTwice ==
    (subject \in {"pool", "crashed"} /\ ret.op = "optimize_at") =>
        \A k \in 1 .. Len(cb_log), m \in 1 .. Len(cb_log) :
            k < m => /\ cb_log[k].from # cb_log[m].from
                     /\ cb_log[k].to # cb_log[m].from

\* chunk 1 received a value from chunk 2, which was dropped, and was then
\* compacted in place
C33_Witness ==
    /\ subject = "pool"
    /\ ret.op = "optimize_at"
    /\ ~ret.undefined
    /\ Len(cb_log) = 1
    /\ unpack_index(cb_log[1].from).chunk = 2
    /\ cb_log[1].to = pack_index(1, 0)
    /\ ChunkSizes(chunks_) = <<2, 1>>

\* C34: optimize_at on a pool with zero chunks indexes no chunk, calls no
\* callback and returns with the pool still without chunks and of size 0.
C34_OptimizeEmptyPoolIsNoOp ==
    [][ (subject = "pool" /\ chunks_ = <<>> /\ ret'.op = "optimize_at") =>
          /\ ~ret'.undefined
          /\ subject' = "pool"
          /\ cb_log' = <<>>
          /\ chunks_' = <<>>
          /\ pool_size(chunks_') = 0 ]_vars

\* the views of the callbacks of an optimize_at call on the structure as it is
CallbackViews ==
    IF subject = "arena"
    THEN {optimize_views(list)[k] : k \in 1 .. Len(optimize_views(list))}
    ELSE {pool_optimize_at(chunks_).views[k] :
             k \in 1 .. Len(pool_optimize_at(chunks_).views)}

\* C35: when the relocation callback runs with (from, to), of the arena or of
\* the pool, holds_value_at(to) is true, holds_value_at(from) is false and the
\* slot `to` holds the relocated value.
C35_CallbackSeesTheMove ==
    [][ (subject \in {"arena", "pool"} /\ ret'.op = "optimize_at") =>
          \A v \in CallbackViews :
             /\ v.to_chunk.storage_[v.to] = ValueSlot(v.val)
             /\ \A o \in free_mask_outcomes(v.to_chunk) :
                   o.ended = "returned" /\ v.to \notin o.mask
             /\ \A o \in free_mask_outcomes(v.from_chunk) :
                   o.ended = "returned" /\ v.from \in o.mask ]_vars

\* C36: copy-assigning an arena to itself leaves it unchanged: the same size(),
\* the same free slots, the same live values at the same indices.
C36_SelfCopyAssignKeepsArena ==
    [][ (subject = "arena" /\ ret'.op = "copy_assignment_self") =>
          /\ ~ret'.undefined
          /\ subject' = "arena"
          /\ size(list') = size(list)
          /\ free_mask(list') = free_mask(list)
          /\ ValueMap(list') = ValueMap(list) ]_vars

\* C37: resize(count, value) leaves size() == count; a smaller count keeps the
\* first count elements, a larger one keeps the elements and appends copies of
\* value, an equal one changes nothing.
C37_ResizeSetsSize ==
    [][ (subject = "ptr_vector" /\ ret'.op = "resize") =>
          /\ Len(vector_storage_') = ret'.idx
          /\ \A k \in 1 .. Len(vector_storage_') :
                vector_storage_'[k] = IF k <= Len(vector_storage_)
                                      THEN vector_storage_[k] ELSE ret'.val ]_vars

\* --------------------------------------------- intrusive_list observations
\* the values of a list, front to back
list_values(ns, s) == [k \in 1 .. Len(elements(ns, s)) |-> ns[elements(ns, s)[k]].v]

is_sorted_by_less(seq) == \A k \in 1 .. Len(seq) - 1 : seq[k] <= seq[k + 1]

\* the sentinel s and the nodes reached from it form one ring of live nodes:
\* previous undoes next and next undoes previous at every node of the ring, and
\* the walk from the sentinel comes back to it with no node visited twice
RingWellFormed(ns, s) ==
    LET ring == <<s>> \o elements(ns, s)
        members == {ring[k] : k \in 1 .. Len(ring)}
    IN /\ Cardinality(members) = Len(ring)
       /\ \A n \in members :
             /\ ns[n].alive
             /\ ns[n].next \in members
             /\ ns[n].previous \in members
             /\ ns[ns[n].next].previous = n
             /\ ns[ns[n].previous].next = n

\* every live element is on exactly one of the two lists
NoNodeLost ==
    LET on(l) == {elements(nodes, sentinel_[l])[k] :
                     k \in 1 .. Len(elements(nodes, sentinel_[l]))}
    IN /\ on("this") \cap on("other") = {}
       /\ on("this") \cup on("other") = {n \in ElementIds : nodes[n].alive}

index_in(seq, n) == CHOOSE k \in 1 .. Len(seq) : seq[k] = n

members_of(seq) == {seq[k] : k \in 1 .. Len(seq)}

values_of(ns, seq) == [k \in 1 .. Len(seq) |-> ns[seq[k]].v]

\* r holds exactly the nodes of a and b, sorted by value, a node of a in front
\* of every node of b that is equivalent to it
sorted_union(ns, a, b, r) ==
    /\ Len(r) = Len(a) + Len(b)
    /\ members_of(r) = members_of(a) \cup members_of(b)
    /\ is_sorted_by_less(values_of(ns, r))
    /\ \A x \in members_of(a), y \in members_of(b) :
          ns[x].v = ns[y].v => index_in(r, x) < index_in(r, y)

\* what this.merge(other) made of this (a before, r after) and of other (b
\* before, o after)
merge_result(ns_before, a, b, ns_after, r, o) ==
    /\ \A n \in members_of(a) \cup members_of(b) : ns_after[n].v = ns_before[n].v
    /\ a = <<>> => r = b
    /\ b = <<>> => r = a
    /\ o = <<>>
    /\ (is_sorted_by_less(values_of(ns_before, a))
           /\ is_sorted_by_less(values_of(ns_before, b)))
          => sorted_union(ns_after, a, b, r)

MergeStep == subject = "intrusive_list" /\ ret'.op = "merge"

\* C38: merge of two lists sorted by comp leaves this list sorted, holding
\* exactly the elements of both with an element of this in front of an
\* equivalent element of other, and leaves other empty; with either list empty
\* the result is the other list's sequence; merging a list with itself changes
\* nothing
C38_MergeSortedLists ==
    [][MergeStep =>
          IF ret'.last = 1
          THEN nodes' = nodes /\ sentinel_' = sentinel_
          ELSE merge_result(nodes, elements(nodes, sentinel_[ret'.val]),
                            elements(nodes, sentinel_[OtherOf(ret'.val)]),
                            nodes', elements(nodes', sentinel_'[ret'.val]),
                            elements(nodes', sentinel_'[OtherOf(ret'.val)]))]_vars

\* a merge put the one element of other between two elements of this, behind the
\* element equivalent to it
C38_Witness ==
    /\ subject = "intrusive_list"
    /\ ret.op = "merge" /\ ret.last = 0
    /\ Len(elements(nodes, sentinel_[ret.val])) = 3
    /\ list_values(nodes, sentinel_[ret.val]) = <<1, 1, 2>>
    /\ elements(nodes, sentinel_[ret.val])[2] > elements(nodes, sentinel_[ret.val])[3]
    /\ elements(nodes, sentinel_[OtherOf(ret.val)]) = <<>>

\* C39: in every intrusive_list state the sentinel and the nodes of each list
\* form one well-formed circular doubly linked list (previous undoes next and
\* next undoes previous at every node, sentinel included), and the walk from the
\* sentinel comes back to it after visiting every element exactly once
C39_RingWellFormed ==
    subject = "intrusive_list" =>
        /\ \A l \in Lists : RingWellFormed(nodes, sentinel_[l])
        /\ NoNodeLost

\* C40: erase(first, last) with first = last removes and destroys no element
\* and leaves the list unchanged
C40_EraseEmptyRangeIsNoOp ==
    [][(subject = "intrusive_list" /\ ret'.op = "erase_range"
           /\ ret'.idx = ret'.last)
          => nodes' = nodes /\ instances' = instances]_vars

====
